---- MODULE Spec2Model ----
(***************************************************************************)
(* The Second Brain: the per-user memory store (core/memory_manager.py),   *)
(* the vector index adapter (core/vector_store.py), the intent resolver    *)
(* (core/ai_engine.py) and the session orchestrator (main.py).             *)
(*                                                                         *)
(* Text is a sequence of atoms.  An atom is one whitespace character, one  *)
(* punctuation character, the underscore, or a run of letters/digits that  *)
(* the inputs of this model never split.  Substring tests, regular         *)
(* expression tests and key normalisation are computed on these sequences. *)
(***************************************************************************)
EXTENDS Integers, Sequences, FiniteSets, TLC

VARIABLES
    files,          \* memories_dir: user_<id>_memory.json, by <id>
    index,          \* the chroma collection "second_brain", in insertion order
    conversations,  \* SecondBrain.user_conversations
    recent_actions, \* AIEngine.recent_actions
    clients,        \* AIEngine.groq_client / openai_client (configured or None)
    threads,        \* the requests the server's threads are working on
    last            \* the last call: its arguments, what it returned, what it called

vars == <<files, index, conversations, recent_actions, clients, threads, last>>

-----------------------------------------------------------------------------
(* Bounds of the model *)

MaxChunks == 2      \* chunks the collection holds at most
MaxActions == 2     \* recent actions recorded at most
MaxKeyLen == 3      \* atoms of a key handed to create_memory_key at most

-----------------------------------------------------------------------------
(* Text *)

EmptyText == <<>>
NoUser == EmptyText         \* user_id None or "": both falsy
NL == "\n"
SP == " "

Whitespace == {SP, NL}
Punctuation == {"'", ":", "-", "=", ".", "(", ")", "|"}

\* str.lower(), atom by atom
LowerAtom(a) ==
    CASE a = "Tulasi" -> "tulasi"
      [] a = "Phone" -> "phone"
      [] a = "I" -> "i"
      [] a = "Memorize" -> "memorize"
      [] a = "Need" -> "need"
      [] a = "Reminder" -> "reminder"
      [] a = "User" -> "user"
      [] a = "Borrowed" -> "borrowed"
      [] a = "Lent" -> "lent"
      [] a = "What" -> "what"
      [] a = "Notes" -> "notes"
      [] OTHER -> a

Lower(t) == [i \in DOMAIN t |-> LowerAtom(t[i])]

RECURSIVE LStrip(_)
LStrip(t) == IF t # <<>> /\ Head(t) \in Whitespace THEN LStrip(Tail(t)) ELSE t

RECURSIVE RStrip(_)
RStrip(t) ==
    IF t # <<>> /\ t[Len(t)] \in Whitespace THEN RStrip(SubSeq(t, 1, Len(t) - 1)) ELSE t

Strip(t) == RStrip(LStrip(t))

\* a faulty variant of IsPunct: the underscore is removed with the punctuation
IsPunctOrUnderscore(a) == a \in Punctuation \cup {"_"}

IsPunct(a) == a \in Punctuation
IsSpace(a) == a \in Whitespace

\* re.sub(r'[^\w\s]', '', key)
RemovePunctuation(t) == SelectSeq(t, LAMBDA a : ~IsPunct(a))

\* re.sub(r'\s+', '_', key)
RECURSIVE SpacesToUnderscore(_)
SpacesToUnderscore(t) ==
    IF t = <<>> THEN <<>>
    ELSE IF IsSpace(Head(t))
         THEN <<"_">> \o SpacesToUnderscore(LStrip(t))
         ELSE <<Head(t)>> \o SpacesToUnderscore(Tail(t))

\* a in b, for Python strings
IsSubstring(a, b) ==
    \E i \in 0..(Len(b) - Len(a)) : SubSeq(b, i + 1, i + Len(a)) = a

\* s.replace(' ', '_')
ReplaceSpace(t) == [i \in DOMAIN t |-> IF t[i] = SP THEN "_" ELSE t[i]]

RECURSIVE Join(_, _)
Join(ws, sep) ==
    IF ws = <<>> THEN <<>>
    ELSE IF Len(ws) = 1 THEN ws[1]
    ELSE ws[1] \o sep \o Join(Tail(ws), sep)

-----------------------------------------------------------------------------
(* Category names *)

personal_info == <<"personal", "_", "info">>
contacts == <<"contacts">>
financial == <<"financial">>
borrowed_items == <<"borrowed", "_", "items">>
important_notes == <<"important", "_", "notes">>
credentials == <<"credentials">>
custom_memories == <<"custom", "_", "memories">>
personal_memories == <<"personal", "_", "memories">>

-----------------------------------------------------------------------------
(* MemoryManager: the store of one user *)

\* A store is a sequence of categories in insertion order (a JSON object);
\* a category is a sequence of items [key, memory] in insertion order.

EmptyCategory(name) == [name |-> name, items |-> <<>>]

DefaultMemories ==
    << EmptyCategory(personal_info), EmptyCategory(contacts),
       EmptyCategory(financial), EmptyCategory(borrowed_items),
       EmptyCategory(important_notes), EmptyCategory(credentials),
       EmptyCategory(custom_memories) >>

\* a faulty variant of UserMemoryFile: one file for all users
SharedMemoryFile(user_id) == <<"shared">>

\* _get_user_memory_file: the file is named by the user id alone
UserMemoryFile(user_id) == user_id

\* _load_user_memories: the parsed file, the default store when the file
\* is absent or does not parse
LoadUserMemories(fs, user_id) ==
    LET f == UserMemoryFile(user_id) IN
    IF f \in DOMAIN fs /\ fs[f].ok THEN fs[f].cats ELSE DefaultMemories

\* _save_user_memories: open(..., 'w') may fail (the file is untouched), the
\* write may fail after the file was truncated (the file no longer parses)
SaveOutcomes == {"saved", "open_fails", "write_fails"}

SavedFiles(fs, user_id, memories, outcome) ==
    LET f == UserMemoryFile(user_id) IN
    CASE outcome = "saved" ->
            [x \in DOMAIN fs \cup {f} |->
                IF x = f THEN [ok |-> TRUE, cats |-> memories] ELSE fs[x]]
      [] outcome = "write_fails" ->
            [x \in DOMAIN fs \cup {f} |->
                IF x = f THEN [ok |-> FALSE, cats |-> <<>>] ELSE fs[x]]
      [] OTHER -> fs

\* create_memory_key
create_memory_key(text) ==
    SpacesToUnderscore(RemovePunctuation(Strip(Lower(text))))

CategoryIndex(memories, category) ==
    IF \E i \in DOMAIN memories : memories[i].name = category
    THEN CHOOSE i \in DOMAIN memories : memories[i].name = category
    ELSE 0

KeyIndex(items, key) ==
    IF \E i \in DOMAIN items : items[i].key = key
    THEN CHOOSE i \in DOMAIN items : items[i].key = key
    ELSE 0

HasCategory(memories, category) == CategoryIndex(memories, category) # 0

CategoryItems(memories, category) ==
    IF HasCategory(memories, category)
    THEN memories[CategoryIndex(memories, category)].items
    ELSE <<>>

HasKey(memories, category, key) ==
    KeyIndex(CategoryItems(memories, category), key) # 0

\* a faulty variant of SetItem: the record is always added, never replaced
SetItemAppend(items, key, memory) == Append(items, [key |-> key, memory |-> memory])

\* memories[category][standardized_key] = memory_data
SetItem(items, key, memory) ==
    IF KeyIndex(items, key) # 0
    THEN [items EXCEPT ![KeyIndex(items, key)] = [key |-> key, memory |-> memory]]
    ELSE Append(items, [key |-> key, memory |-> memory])

MemoryData(user_id, category, key, value, description) ==
    [original_key |-> key, value |-> value, description |-> description,
     category |-> category, user_id |-> user_id]

\* the store memorize() hands to _save_user_memories
MemorizedStore(fs, user_id, category, key, value, description) ==
    LET memories == LoadUserMemories(fs, user_id)
        withCat == IF HasCategory(memories, category) THEN memories
                   ELSE Append(memories, EmptyCategory(category))
        c == CategoryIndex(withCat, category)
    IN [withCat EXCEPT ![c].items =
            SetItem(@, create_memory_key(key),
                    MemoryData(user_id, category, key, value, description))]

\* the (category, key) pairs of a store
StoredKeys(memories) ==
    UNION {{<<memories[c].name, memories[c].items[i].key>> :
                i \in DOMAIN memories[c].items} : c \in DOMAIN memories}

-----------------------------------------------------------------------------
(* The record of the last call *)

NoFilter == {}

NoResponse == [kind |-> "none", sources |-> {}, confidence |-> 0]

NoCall ==
    [op |-> "none", user |-> NoUser, category |-> EmptyText, key |-> EmptyText,
     question |-> <<>>, ret |-> "none", memory |-> <<>>, results |-> <<>>,
     filters |-> NoFilter, context |-> <<>>, response |-> NoResponse,
     calls |-> <<>>, existed |-> FALSE, again |-> FALSE]

-----------------------------------------------------------------------------
(* MemoryManager.memorize and the convenience writers *)

memorize_files(fs, user_id, category, key, value, description, outcome) ==
    SavedFiles(fs, user_id,
               MemorizedStore(fs, user_id, category, key, value, description),
               outcome)

\* line 143: the key already exists in this category
memorize_updates(fs, user_id, category, key) ==
    HasKey(LoadUserMemories(fs, user_id), category, create_memory_key(key))

Memorize(user_id, category, key, value, description, outcome) ==
    /\ files' = memorize_files(files, user_id, category, key, value, description,
                               outcome)
    /\ last' = [NoCall EXCEPT !.op = "memorize", !.user = user_id,
                              !.category = category, !.key = key,
                              !.existed = memorize_updates(files, user_id, category, key),
                              !.ret = IF outcome = "saved" THEN "true" ELSE "false"]
    /\ UNCHANGED <<index, conversations, recent_actions, clients, threads>>

-----------------------------------------------------------------------------
(* MemoryManager.recall *)

\* a faulty variant of PartialMatch: only a stored key that contains the key
\* asked for matches
PartialMatchContains(standardized_key, item) ==
    IsSubstring(standardized_key, item.key)

PartialMatch(standardized_key, item) ==
    \/ IsSubstring(standardized_key, item.key)
    \/ IsSubstring(item.key, standardized_key)
    \/ IsSubstring(standardized_key, Lower(item.memory.original_key))

\* the item of one category the loop body returns, 0 when it falls through
CategoryMatch(items, standardized_key) ==
    IF KeyIndex(items, standardized_key) # 0 THEN KeyIndex(items, standardized_key)
    ELSE IF \E i \in DOMAIN items : PartialMatch(standardized_key, items[i])
    THEN CHOOSE i \in DOMAIN items :
            /\ PartialMatch(standardized_key, items[i])
            /\ \A j \in 1..(i - 1) : ~PartialMatch(standardized_key, items[j])
    ELSE 0

\* <<category index, item index>> of the record recall returns, <<0, 0>> for None
RecallMatch(memories, standardized_key) ==
    IF \E c \in DOMAIN memories : CategoryMatch(memories[c].items, standardized_key) # 0
    THEN LET c == CHOOSE c \in DOMAIN memories :
                    /\ CategoryMatch(memories[c].items, standardized_key) # 0
                    /\ \A d \in 1..(c - 1) :
                          CategoryMatch(memories[d].items, standardized_key) = 0
         IN <<c, CategoryMatch(memories[c].items, standardized_key)>>
    ELSE <<0, 0>>

\* with a category, line 183 reads self.memories, which no MemoryManager has:
\* the AttributeError is caught and None returned; without the category in the
\* store the test is false and None returned
recall_found(fs, user_id, key, category) ==
    /\ category = EmptyText
    /\ RecallMatch(LoadUserMemories(fs, user_id), create_memory_key(key)) # <<0, 0>>

recall_memory(fs, user_id, key) ==
    LET memories == LoadUserMemories(fs, user_id)
        m == RecallMatch(memories, create_memory_key(key))
    IN memories[m[1]].items[m[2]].memory

recall_files(fs, user_id, key, category, outcome) ==
    IF recall_found(fs, user_id, key, category)
    THEN SavedFiles(fs, user_id, LoadUserMemories(fs, user_id), outcome)
    ELSE fs

Recall(user_id, key, category, outcome) ==
    /\ files' = recall_files(files, user_id, key, category, outcome)
    /\ last' = [NoCall EXCEPT !.op = "recall", !.user = user_id,
                              !.category = category, !.key = key,
                              !.ret = IF recall_found(files, user_id, key, category)
                                      THEN "memory" ELSE "none",
                              !.memory = IF recall_found(files, user_id, key, category)
                                         THEN <<recall_memory(files, user_id, key)>>
                                         ELSE <<>>]
    /\ UNCHANGED <<index, conversations, recent_actions, clients, threads>>

-----------------------------------------------------------------------------
(* MemoryManager.forget *)

RemoveAt(s, i) == SubSeq(s, 1, i - 1) \o SubSeq(s, i + 1, Len(s))

\* a faulty variant of DeleteKey: the emptied category stays in the store
DeleteKeyKeepsCategory(memories, c, key) ==
    [memories EXCEPT ![c].items = RemoveAt(@, KeyIndex(@, key))]

\* del memories[cat][key], and del memories[cat] when that empties it
DeleteKey(memories, c, key) ==
    LET items == RemoveAt(memories[c].items, KeyIndex(memories[c].items, key)) IN
    IF items = <<>> THEN RemoveAt(memories, c)
    ELSE [memories EXCEPT ![c].items = items]

\* a faulty variant of ForgetCategory: the category of the record recall finds
ForgetCategoryFuzzy(memories, key, category) == RecallMatch(memories, key)[1]

\* the category forget deletes from, 0 when the key is not found
ForgetCategory(memories, key, category) ==
    IF category # EmptyText
    THEN IF HasKey(memories, category, key)
         THEN CategoryIndex(memories, category) ELSE 0
    ELSE IF \E c \in DOMAIN memories : KeyIndex(memories[c].items, key) # 0
    THEN CHOOSE c \in DOMAIN memories :
            /\ KeyIndex(memories[c].items, key) # 0
            /\ \A d \in 1..(c - 1) : KeyIndex(memories[d].items, key) = 0
    ELSE 0

forget_files(fs, user_id, key, category, outcome) ==
    LET memories == LoadUserMemories(fs, user_id)
        c == ForgetCategory(memories, key, category)
    IN IF c = 0 THEN fs
       ELSE SavedFiles(fs, user_id, DeleteKey(memories, c, key), outcome)

forget_returns(fs, user_id, key, category, outcome) ==
    /\ ForgetCategory(LoadUserMemories(fs, user_id), key, category) # 0
    /\ outcome = "saved"

Forget(user_id, key, category, outcome) ==
    /\ files' = forget_files(files, user_id, key, category, outcome)
    /\ last' = [NoCall EXCEPT !.op = "forget", !.user = user_id,
                              !.category = category, !.key = key,
                              !.ret = IF forget_returns(files, user_id, key, category, outcome)
                                      THEN "true" ELSE "false"]
    /\ UNCHANGED <<index, conversations, recent_actions, clients, threads>>

\* list_memories(user_id)
list_memories(fs, user_id) == LoadUserMemories(fs, user_id)

-----------------------------------------------------------------------------
(* VectorStore *)

\* A chunk of the collection: its document text and its metadata.  Chunk ids
\* are fresh uuids; a chunk is identified by its position in the collection.
Chunk(metadata, content, i, n) ==
    [file_name |-> metadata.file_name, file_path |-> metadata.file_path,
     user_id |-> metadata.user_id, content |-> content,
     chunk_index |-> i, chunk_count |-> n]

\* add_documents: metadata['user_id'] = user_id when user_id is given
ChunkUser(metadata, user_id) ==
    IF user_id # NoUser THEN user_id ELSE metadata.user_id

\* the chunks add_documents adds for one document
DocumentChunks(doc, user_id) ==
    [i \in 1..Len(doc.chunks) |->
        Chunk([doc.metadata EXCEPT !.user_id = ChunkUser(doc.metadata, user_id)],
              doc.chunks[i], i - 1, Len(doc.chunks))]

\* add_documents([doc], user_id): collection.add adds all chunks or raises
add_documents(collection, doc, user_id, ok) ==
    IF ok THEN collection \o DocumentChunks(doc, user_id) ELSE collection

\* A where-filter is a set of <<field, value>> conditions, all of which a
\* chunk's metadata must meet; None and {} are the empty set (NoFilter).

MetadataField(chunk, field) ==
    CASE field = "user_id" -> chunk.user_id
      [] field = "file_name" -> chunk.file_name
      [] OTHER -> chunk.file_path

Matches(chunk, where) == \A p \in where : MetadataField(chunk, p[1]) = p[2]

\* a faulty variant of SearchWhere: the user filter is not applied
SearchWhereUnfiltered(filters, user_id) == filters

\* search: the filter handed to collection.query
SearchWhere(filters, user_id) ==
    IF user_id # NoUser /\ filters # NoFilter
    THEN filters \cup {<<"user_id", user_id>>}
    ELSE IF user_id # NoUser THEN {<<"user_id", user_id>>}
    ELSE filters

Min(a, b) == IF a < b THEN a ELSE b

\* the sets of positions collection.query can return: n_results of the chunks
\* that meet the filter (all of them when there are fewer), nearest first by an
\* embedding distance the model leaves open
QueryPicks(collection, n_results, where) ==
    LET matching == {i \in DOMAIN collection : Matches(collection[i], where)} IN
    {picked \in SUBSET matching :
        Cardinality(picked) = Min(n_results, Cardinality(matching))}

RECURSIVE Pick(_, _, _)
Pick(collection, picked, i) ==
    IF i > Len(collection) THEN <<>>
    ELSE (IF i \in picked THEN <<collection[i]>> ELSE <<>>)
            \o Pick(collection, picked, i + 1)

\* the list search returns; [] when the embedding or the query raises
search_results(collection, picked, ok) ==
    IF ok THEN Pick(collection, picked, 1) ELSE <<>>

Search(question, n_results, filters, user_id, ok) ==
    /\ \E picked \in QueryPicks(index, n_results, SearchWhere(filters, user_id)) :
          last' = [NoCall EXCEPT !.op = "search", !.user = user_id,
                                 !.question = question, !.filters = filters,
                                 !.results = search_results(index, picked, ok)]
    /\ UNCHANGED <<files, index, conversations, recent_actions, clients, threads>>

-----------------------------------------------------------------------------
(* Deleting documents: VectorStore.delete_user_document, *)
(* DataManager.delete_document and the route DELETE /documents/<filename> *)

\* a call with more positional arguments than the signature accepts raises
\* TypeError before the callee runs
CallRejects(given, accepted) == given > accepted

\* vector_store.py lines 107-108: filename in file_name, and the user's chunk
UserDocumentChunk(chunk, filename, user_id) ==
    IsSubstring(filename, chunk.file_name) /\ chunk.user_id = user_id

\* data_manager.py lines 20-21: filename in file_name or in file_path
DocumentChunk(chunk, filename) ==
    IsSubstring(filename, chunk.file_name) \/ IsSubstring(filename, chunk.file_path)

\* delete_user_document: the collection afterwards; unchanged when
\* collection.get or collection.delete raises
delete_user_document(collection, filename, user_id, ok) ==
    IF ok
    THEN SelectSeq(collection, LAMBDA c : ~UserDocumentChunk(c, filename, user_id))
    ELSE collection

\* DataManager.delete_document(filename)
delete_document(collection, filename, ok) ==
    IF ok THEN SelectSeq(collection, LAMBDA c : ~DocumentChunk(c, filename))
    ELSE collection

\* both return True when chunks were found and deleted
Deleted(collection, remaining) ==
    IF Len(remaining) < Len(collection) THEN "true" ELSE "false"

DeleteUserDocument(filename, user_id, ok) ==
    /\ index' = delete_user_document(index, filename, user_id, ok)
    /\ last' = [NoCall EXCEPT
                  !.op = "delete_user_document", !.user = user_id, !.key = filename,
                  !.ret = Deleted(index,
                                  delete_user_document(index, filename, user_id, ok))]
    /\ UNCHANGED <<files, conversations, recent_actions, clients, threads>>

\* the document manager of main.py: delete_document(filename), for no user
DeleteDocument(filename, ok) ==
    /\ index' = delete_document(index, filename, ok)
    /\ last' = [NoCall EXCEPT
                  !.op = "delete_document", !.key = filename,
                  !.ret = Deleted(index, delete_document(index, filename, ok))]
    /\ UNCHANGED <<files, conversations, recent_actions, clients, threads>>

\* app.py line 295: brain.manager.delete_document(filename, user_id) hands two
\* arguments to a method that accepts one; the TypeError is answered with 500
DeleteDocumentRoute(filename, user_id, ok) ==
    /\ index' = IF CallRejects(2, 1) THEN index
                ELSE delete_document(index, filename, ok)
    /\ last' = [NoCall EXCEPT
                  !.op = "delete_route", !.user = user_id, !.key = filename,
                  !.ret = IF CallRejects(2, 1) THEN "error_500"
                          ELSE Deleted(index, delete_document(index, filename, ok))]
    /\ UNCHANGED <<files, conversations, recent_actions, clients, threads>>

-----------------------------------------------------------------------------
(* MemoryManager.export_memories_to_vector *)

\* str.upper(), atom by atom, for the category names of the model
UpperAtom(a) ==
    CASE a = "personal" -> "PERSONAL"
      [] a = "info" -> "INFO"
      [] a = "contacts" -> "CONTACTS"
      [] a = "financial" -> "FINANCIAL"
      [] a = "borrowed" -> "BORROWED"
      [] a = "items" -> "ITEMS"
      [] a = "important" -> "IMPORTANT"
      [] a = "notes" -> "NOTES"
      [] a = "credentials" -> "CREDENTIALS"
      [] a = "custom" -> "CUSTOM"
      [] a = "memories" -> "MEMORIES"
      [] OTHER -> a

Upper(t) == [i \in DOMAIN t |-> UpperAtom(t[i])]

ExportHeader(user_id) ==
    <<"PERSONAL MEMORIES AND INFORMATION FOR USER ">> \o user_id \o <<":", NL, NL>>

ExportPreamble(user_id) ==
    <<"=== USER'S PERSONAL INFORMATION ===", NL,
      "This section contains personal details for user ">> \o user_id
        \o <<".", NL, NL>>

ExportLine(item) ==
    <<"-", SP>> \o item.key \o <<":", SP>> \o item.memory.value
        \o (IF item.memory.description # EmptyText
            THEN <<SP, "(">> \o item.memory.description \o <<")">> ELSE <<>>)
        \o <<NL>>

RECURSIVE ExportLines(_)
ExportLines(items) ==
    IF items = <<>> THEN <<>> ELSE ExportLine(Head(items)) \o ExportLines(Tail(items))

\* a faulty variant of ExportedCategory: contacts are written like the others
ExportedCategoryAll(category) == category.items # <<>>

\* a category is written when it is non-empty and is not contacts
ExportedCategory(category) ==
    category.items # <<>> /\ category.name # contacts

RECURSIVE ExportSections(_)
ExportSections(memories) ==
    IF memories = <<>> THEN <<>>
    ELSE (IF ExportedCategory(Head(memories))
          THEN <<"===", SP>> \o Upper(Head(memories).name) \o <<SP, "===", NL>>
                \o ExportLines(Head(memories).items) \o <<NL>>
          ELSE <<>>)
         \o ExportSections(Tail(memories))

memories_text(user_id, memories) ==
    ExportHeader(user_id) \o ExportPreamble(user_id) \o ExportSections(memories)

\* line 445: the text is inserted when it is not blank and differs from the
\* first header line
ExportInserts(user_id, text) ==
    Strip(text) # <<>> /\ text # ExportHeader(user_id)

IsMemoryChunk(chunk, user_id) ==
    chunk.file_name = personal_memories /\ chunk.user_id = user_id

\* lines 411-422: the user's memory documents are deleted; when collection.get
\* or collection.delete raises, the failure is logged and the export goes on
CleanedCollection(collection, user_id, cleaned) ==
    IF cleaned
    THEN SelectSeq(collection, LAMBDA c : ~IsMemoryChunk(c, user_id))
    ELSE collection

MemoryDocument(user_id, text) ==
    [metadata |-> [file_name |-> personal_memories,
                   file_path |-> <<"personal_memory_system_user_">> \o user_id,
                   user_id |-> user_id],
     chunks |-> <<text>>]

export_collection(fs, collection, user_id, cleaned, added) ==
    LET text == memories_text(user_id, LoadUserMemories(fs, user_id))
        clean == CleanedCollection(collection, user_id, cleaned)
    IN IF ExportInserts(user_id, text)
       THEN add_documents(clean, MemoryDocument(user_id, text), user_id, added)
       ELSE clean

export_returns(fs, user_id, added) ==
    /\ ExportInserts(user_id, memories_text(user_id, LoadUserMemories(fs, user_id)))
    /\ added

ExportMemories(user_id, cleaned, added) ==
    /\ Len(export_collection(files, index, user_id, cleaned, added)) <= MaxChunks
    /\ index' = export_collection(files, index, user_id, cleaned, added)
    /\ last' = [NoCall EXCEPT !.op = "export", !.user = user_id,
                              !.ret = IF export_returns(files, user_id, added)
                                      THEN "true" ELSE "false",
                              !.calls = <<IF cleaned THEN "cleaned" ELSE "clean_failed">>,
                              !.again = /\ last.op = "export"
                                        /\ last.user = user_id
                                        /\ last.ret = "true"]
    /\ UNCHANGED <<files, conversations, recent_actions, clients, threads>>

-----------------------------------------------------------------------------
(* AIEngine.add_recent_action and SecondBrain.ingest_data *)

RecentActionsKept == 10

RecentAction(action, file_name, file_type, question, user_id) ==
    [action |-> action, file_name |-> file_name, file_type |-> file_type,
     query |-> question, user_id |-> user_id]

LastN(s, n) == IF Len(s) > n THEN SubSeq(s, Len(s) - n + 1, Len(s)) ELSE s

add_recent_action(actions, entry) == LastN(Append(actions, entry), RecentActionsKept)

\* what DataIngestor.ingest_file returns for a file: the metadata it builds
\* (no user_id among it) and the chunks
IngestedFile(file) ==
    [metadata |-> [file_name |-> file.file_name, file_path |-> file.file_path,
                   user_id |-> NoUser],
     chunks |-> file.chunks]

IngestOutcomes == {"file_missing", "not_processed", "add_failed", "added"}

\* ingest_data(file_path): the document goes to add_documents without a user_id
IngestData(file, outcome) ==
    /\ Len(index) + Len(file.chunks) <= MaxChunks
    /\ Len(recent_actions) < MaxActions
    /\ index' = IF outcome \in {"add_failed", "added"}
                THEN add_documents(index, IngestedFile(file), NoUser, outcome = "added")
                ELSE index
    /\ recent_actions' =
          IF outcome = "added"
          THEN add_recent_action(recent_actions,
                    RecentAction("ingest", file.file_name, file.file_type, <<>>, NoUser))
          ELSE recent_actions
    /\ last' = [NoCall EXCEPT !.op = "ingest", !.ret = outcome]
    /\ UNCHANGED <<files, conversations, clients, threads>>

-----------------------------------------------------------------------------
(* Inputs *)

U1 == <<"u1">>
U2 == <<"u2">>
Users == {U1, U2}

Tulasi == <<"Tulasi">>
TulasisPhone == <<"tulasi", "'", "s", SP, "Phone">>
Phone1 == <<"9876543210">>
Phone2 == <<"7278949280">>
Friend == <<"friend">>

\* the arguments of memorize: <<user_id, category, key, value, description>>
MemorizeCalls ==
    { <<U1, important_notes, Tulasi, Phone1, Friend>>,
      <<U1, important_notes, <<"tulasi">>, Phone2, EmptyText>>,
      <<U2, contacts, Tulasi, Phone1, EmptyText>>,
      <<U1, contacts, Friend, Phone2, EmptyText>> }

\* the arguments of recall and forget: <<user_id, key, category>>
RecallCalls ==
    { <<U1, TulasisPhone, EmptyText>>, <<U1, Tulasi, important_notes>>,
      <<U2, Tulasi, EmptyText>>, <<U2, TulasisPhone, EmptyText>> }

ForgetCalls ==
    { <<U1, <<"tulasi">>, EmptyText>>, <<U1, <<"tulasi">>, contacts>>,
      <<U1, <<"tulasi", "s", "_", "phone">>, EmptyText>>,
      <<U2, <<"tulasi">>, contacts>> }

Shot1 ==
    [file_name |-> <<"shot1", ".", "png">>, file_path |-> <<"shot1", ".", "png">>,
     file_type |-> <<".", "png">>, chunks |-> <<<<"screenshot">>>>]
Report ==
    [file_name |-> <<"report", ".", "txt">>, file_path |-> <<"report", ".", "txt">>,
     file_type |-> <<".", "txt">>, chunks |-> <<<<"budget">>, <<"team">>>>]
Files == {Shot1, Report}

\* the documents added for users and deleted by name
OldShot1 ==
    [file_name |-> <<"old", "_", "shot1", ".", "png">>,
     file_path |-> <<"old", "_", "shot1", ".", "png">>,
     file_type |-> <<".", "png">>, chunks |-> <<<<"screenshot">>>>]
Documents == {Shot1, OldShot1}

\* questions, word by word
Words(ws) == Join(ws, <<SP>>)

MeetingReminder ==
    Words(<< <<"Memorize">>, <<"that">>, <<"i">>, <<"have">>, <<"meeting">>, <<"at">>,
             <<"10">>, <<"am">> >>)
TookCharger ==
    Words(<< <<"remember">>, <<"this">>, <<"i">>, <<"took">>, <<"charger">>, <<"from">>,
             <<"ram">> >>)
LentBook ==
    Words(<< <<"remember">>, <<"this">>, <<"i">>, <<"lent">>, <<"book">>, <<"to">>,
             <<"ram">> >>)
MemorizeMyPhone ==
    Words(<< <<"memorize">>, <<"my">>, <<"phone">>, <<"number">>, <<"as">>, Phone1 >>)
MemorizeMyAadhaar ==
    Words(<< <<"memorize">>, <<"my">>, <<"aadhaar">>, <<"number">>, <<"as">>,
             <<"1234", "-", "5678", "-", "9012">> >>)
MemorizeDebt ==
    Words(<< <<"memorize">>, <<"that">>, <<"abhi">>, <<"owe", "s">>, <<"me">>,
             <<"2000">> >>)
SaveThis == Words(<< <<"save">>, <<"this">> >>)
RememberMyDog == Words(<< <<"remember">>, <<"my">>, <<"dog">> >>)
RememberDebt ==
    Words(<< <<"remember">>, <<"that">>, <<"abhi">>, <<"owe", "s">>, <<"me">>,
             <<"2000">>, <<"rupee", "s">> >>)
WhatIsMyPhone == Words(<< <<"what">>, <<"is">>, <<"my">>, <<"phone">>, <<"number">> >>)
MyNotes == Words(<< <<"my">>, <<"notes">> >>)
ShowFriendContact ==
    Words(<< <<"show">>, <<"me">>, <<"my">>, <<"friend">>, <<"contact">> >>)
TulasiPhone ==
    Words(<< <<"what">>, <<"is">>, <<"tulasi">>, <<"phone">>, <<"number">> >>)
LastPicture ==
    Words(<< <<"describe">>, <<"the">>, <<"last">>, <<"picture">> >>)
RecentScreenshot ==
    Words(<< <<"What">>, <<"is">>, <<"in">>, <<"my">>, <<"recent">>,
             <<"screenshot", "?">> >>)

Queries ==
    { MeetingReminder, TookCharger, LentBook, MemorizeMyPhone, MemorizeMyAadhaar,
      MemorizeDebt, SaveThis, RememberMyDog, RememberDebt, WhatIsMyPhone, MyNotes,
      ShowFriendContact, TulasiPhone, LastPicture, RecentScreenshot }

\* the questions put to SecondBrain.query
Questions == { SaveThis, WhatIsMyPhone, TulasiPhone }

SaveScripts == { <<"saved">>, <<"open_fails">>, <<"write_fails">> }
Contexts == { <<>>, DocumentChunks(IngestedFile(Shot1), U1) }

SearchSizes == {1, 5}
Filters == {NoFilter, {<<"file_name", Shot1.file_name>>}}

-----------------------------------------------------------------------------
(* Regular expressions of core/ai_engine.py, matched over atoms *)

\* the number of digits of an atom that is a run of digits, 0 for other atoms
DigitCount(a) ==
    CASE a \in {"9876543210", "7278949280"} -> 10
      [] a \in {"1234", "5678", "9012", "2000"} -> 4
      [] a \in {"10", "17", "42"} -> 2
      [] OTHER -> 0

\* character classes: \s, ., \w, [\w\s], [-\.\s]
InClass(a, class) ==
    CASE class = "space" -> a \in Whitespace
      [] class = "any" -> a # NL
      [] class = "word" -> a \notin Whitespace \cup Punctuation
      [] class = "wordspace" -> a \notin Punctuation
      [] OTHER -> a \in {"-", "."} \cup Whitespace

Elem(t, alts, sub, class, min, lazy, n) ==
    [t |-> t, alts |-> alts, sub |-> sub, class |-> class, min |-> min,
     lazy |-> lazy, n |-> n]

Lit(alts) == <<Elem("lit", alts, <<>>, "", 0, FALSE, 0)>>          \* (?:a|b), abc
Opt(sub) == <<Elem("opt", <<>>, sub, "", 0, FALSE, 0)>>            \* (?:...)?
OptLazy(sub) == <<Elem("opt", <<>>, sub, "", 0, TRUE, 0)>>         \* (?:...)??
Run(class, min, lazy) == <<Elem("run", <<>>, <<>>, class, min, lazy, 0)>>
One(class) == <<Elem("one", <<>>, <<>>, class, 0, FALSE, 0)>>
Digits(n) == <<Elem("digits", <<>>, <<>>, "", 0, FALSE, n)>>       \* \d{n}; \d+ for n = 0
Cap(sub) ==                                                        \* ( ... )
    <<Elem("open", <<>>, <<>>, "", 0, FALSE, 0)>> \o sub
        \o <<Elem("close", <<>>, <<>>, "", 0, FALSE, 0)>>

W(a) == Lit(<<<<a>>>>)
S1 == Run("space", 1, FALSE)        \* \s+
S0 == Run("space", 0, FALSE)        \* \s*

NoMatch == [ok |-> FALSE, start |-> 0, end |-> 0, groups |-> <<>>]

RECURSIVE RunLen(_, _, _)
RunLen(text, i, class) ==
    IF i <= Len(text) /\ InClass(text[i], class)
    THEN 1 + RunLen(text, i + 1, class) ELSE 0

StartsWith(text, i, lit) ==
    i + Len(lit) - 1 <= Len(text) /\ SubSeq(text, i, i + Len(lit) - 1) = lit

\* MatchHere: the match of the pattern at position i the backtracking search
\* of re finds first; g are the groups closed so far, o the position at which
\* the open group began
RECURSIVE MatchHere(_, _, _, _, _)
RECURSIVE TryAlts(_, _, _, _, _, _)
RECURSIVE TryEnds(_, _, _, _, _, _, _)

MatchHere(pat, text, i, g, o) ==
    IF pat = <<>> THEN [ok |-> TRUE, start |-> 0, end |-> i, groups |-> g]
    ELSE LET e == Head(pat)
             rest == Tail(pat)
         IN CASE e.t = "lit" -> TryAlts(e.alts, rest, text, i, g, o)
              [] e.t = "opt" ->
                    LET with == MatchHere(e.sub \o rest, text, i, g, o)
                        without == MatchHere(rest, text, i, g, o)
                    IN IF e.lazy
                       THEN (IF without.ok THEN without ELSE with)
                       ELSE (IF with.ok THEN with ELSE without)
              [] e.t = "open" -> MatchHere(rest, text, i, g, i)
              [] e.t = "close" ->
                    MatchHere(rest, text, i, Append(g, SubSeq(text, o, i - 1)), 0)
              [] e.t = "run" ->
                    LET max == RunLen(text, i, e.class) IN
                    IF max < e.min THEN NoMatch
                    ELSE IF e.lazy
                    THEN TryEnds(rest, text, g, o, i + e.min, i + max, 1)
                    ELSE TryEnds(rest, text, g, o, i + max, i + e.min, -1)
              [] e.t = "one" ->
                    IF i <= Len(text) /\ InClass(text[i], e.class)
                    THEN MatchHere(rest, text, i + 1, g, o) ELSE NoMatch
              [] OTHER ->
                    IF /\ i <= Len(text)
                       /\ IF e.n = 0 THEN DigitCount(text[i]) > 0
                          ELSE DigitCount(text[i]) = e.n
                    THEN MatchHere(rest, text, i + 1, g, o) ELSE NoMatch

TryAlts(alts, rest, text, i, g, o) ==
    IF alts = <<>> THEN NoMatch
    ELSE LET r == IF StartsWith(text, i, Head(alts))
                  THEN MatchHere(rest, text, i + Len(Head(alts)), g, o)
                  ELSE NoMatch
         IN IF r.ok THEN r ELSE TryAlts(Tail(alts), rest, text, i, g, o)

TryEnds(rest, text, g, o, j, stop, step) ==
    LET r == MatchHere(rest, text, j, g, o) IN
    IF r.ok THEN r
    ELSE IF j = stop THEN NoMatch
    ELSE TryEnds(rest, text, g, o, j + step, stop, step)

\* re.search: the match at the leftmost position that has one
RECURSIVE SearchFrom(_, _, _)
SearchFrom(pat, text, i) ==
    IF i > Len(text) + 1 THEN NoMatch
    ELSE LET r == MatchHere(pat, text, i, <<>>, 0) IN
         IF r.ok THEN [r EXCEPT !.start = i] ELSE SearchFrom(pat, text, i + 1)

re_search(pat, text) == SearchFrom(pat, text, 1)

\* match.group(0)
MatchedText(m, text) == SubSeq(text, m.start, m.end - 1)

\* str.split(): the runs of atoms between whitespace
RECURSIVE Split(_)
Split(t) ==
    LET s == LStrip(t) IN
    IF s = <<>> THEN <<>>
    ELSE LET n == CHOOSE k \in 1..Len(s) :
                    /\ \A j \in 1..k : ~IsSpace(s[j])
                    /\ (k = Len(s) \/ IsSpace(s[k + 1]))
         IN <<SubSeq(s, 1, n)>> \o Split(SubSeq(s, n + 1, Len(s)))

FirstN(s, n) == IF Len(s) > n THEN SubSeq(s, 1, n) ELSE s

-----------------------------------------------------------------------------
(* AIEngine: the intent resolver *)

\* a response: what kind of text it carries, its sources, its confidence in tenths
Response(kind, sources, confidence) ==
    [kind |-> kind, sources |-> sources, confidence |-> confidence]

memory_system == <<"memory", "_", "system">>

\* a faulty variant of memorize_keywords: the list of the system prompt
memorize_keywords_prompt ==
    { <<"memorize">>, <<"remember", SP, "this">>, <<"store", SP, "this">> }

\* _check_memory_query, line 163
memorize_keywords ==
    { <<"memorize">>, <<"remember", SP, "this">>, <<"store", SP, "this">>,
      <<"save", SP, "this">>, <<"remember", SP, "my">>, <<"memorize", SP, "my">> }

ContainsAny(text, keywords) == \E k \in keywords : IsSubstring(k, text)

RememberMemorize == Lit(<< <<"remember">>, <<"memorize">> >>)
RememberMemorizeStore == Lit(<< <<"remember">>, <<"memorize">>, <<"store">> >>)
ThatThis == Lit(<< <<"that">>, <<"this">> >>)
Owes == Lit(<< <<"owe", "s">>, <<"owe">> >>)                     \* owes?
Rupees == Lit(<< <<"rupee", "s">>, <<"rupee">>, <<"rs">> >>)     \* rupees?|rs
TimeOfDay == Digits(0) \o S0 \o Lit(<< <<"am">>, <<"pm">> >>)    \* \d+\s*(?:am|pm)
Lazy1 == Run("any", 1, TRUE)                                     \* .+?
Greedy1 == Run("any", 1, FALSE)                                  \* .+
Greedy0 == Run("any", 0, FALSE)                                  \* .*
OptI == Opt(W("i") \o S1)                                        \* (?:i\s+)?

ReminderHead == RememberMemorize \o S1 \o Opt(ThatThis) \o S0 \o OptI

ContactHead ==
    RememberMemorizeStore \o S1 \o Opt(W("that") \o S1) \o Opt(W("my") \o S1)
        \o Cap(Run("word", 1, FALSE)) \o Opt(Lit(<< <<"'", "s">> >>)) \o S1
        \o W("phone") \o S1 \o Opt(Lit(<< <<"number">>, <<"no">> >>)) \o S1

DebtBody ==
    Cap(Run("word", 1, FALSE)) \o S1 \o Owes \o S1 \o W("me") \o S1
        \o Cap(Digits(0)) \o S0 \o Opt(Cap(Rupees))

AadhaarDigits ==
    Digits(4) \o OptLazy(One("sep")) \o Digits(4) \o OptLazy(One("sep")) \o Digits(4)

Pattern(re, memory_type, extra) == [re |-> re, memory_type |-> memory_type, extra |-> extra]

\* _handle_memorize_command, lines 220-250
patterns ==
    << Pattern(ReminderHead \o W("need") \o S1 \o W("to") \o S1 \o Cap(Lazy1) \o S1
                 \o W("at") \o S1 \o Cap(TimeOfDay), "reminder", <<>>),
       Pattern(ReminderHead \o W("have") \o S1 \o Cap(Lazy1) \o S1
                 \o W("at") \o S1 \o Cap(TimeOfDay), "reminder", <<>>),
       Pattern(ReminderHead \o W("need") \o S1 \o W("to") \o S1 \o Cap(Greedy1),
               "reminder", <<>>),
       Pattern(ReminderHead \o W("have") \o S1 \o Cap(Greedy1), "reminder", <<>>),
       Pattern(OptI \o Lit(<< <<"take">>, <<"took">>, <<"borrow">>, <<"borrow", "ed">> >>)
                 \o S1 \o Cap(Lazy1) \o S1 \o W("from") \o S1 \o Cap(Run("word", 1, FALSE))
                 \o Opt(S1 \o W("to") \o S1 \o Greedy1)
                 \o Opt(S1 \o W("and") \o S1 \o W("need") \o S1 \o W("to") \o S1
                          \o W("give") \o S1 \o W("it") \o S1 \o W("back")),
               "borrowed_from", <<>>),
       Pattern(OptI \o W("need") \o S1 \o W("to") \o S1 \o W("return") \o S1
                 \o Cap(Lazy1) \o S1 \o W("to") \o S1 \o Cap(Run("word", 1, FALSE)),
               "borrowed_from", <<>>),
       Pattern(OptI \o W("have") \o S1 \o Cap(Lazy1) \o S1 \o W("that") \o S1
                 \o W("belongs") \o S1 \o W("to") \o S1 \o Cap(Run("word", 1, FALSE)),
               "borrowed_from", <<>>),
       Pattern(OptI \o W("lent") \o S1 \o Cap(Lazy1) \o S1 \o W("to") \o S1
                 \o Cap(Run("word", 1, FALSE)), "lent_to", <<>>),
       Pattern(Cap(Run("word", 1, FALSE)) \o S1 \o W("has") \o S1 \o W("my") \o S1
                 \o Cap(Greedy1), "lent_to", <<>>),
       Pattern(ContactHead \o Lit(<< <<"is">>, <<"as">> >>) \o S1 \o Cap(Digits(10)),
               "contact", <<>>),
       Pattern(ContactHead \o Cap(Digits(10)), "contact", <<>>),
       Pattern(DebtBody, "debt", <<>>),
       Pattern(RememberMemorize \o S1 \o Opt(W("that") \o S1) \o DebtBody, "debt", <<>>),
       Pattern(W("memorize") \o S1 \o W("my") \o S1 \o Cap(Run("wordspace", 1, TRUE))
                 \o S1 \o W("as") \o S1 \o Cap(Greedy1), "personal", <<>>),
       Pattern(W("remember") \o S1 \o W("my") \o S1 \o Cap(Run("wordspace", 1, TRUE))
                 \o S1 \o W("is") \o S1 \o Cap(Greedy1), "personal", <<>>),
       Pattern(W("remember") \o S1 \o W("that") \o S1 \o W("my") \o S1
                 \o Cap(Run("wordspace", 1, TRUE)) \o S1 \o W("is") \o S1 \o Cap(Greedy1),
               "personal", <<>>),
       Pattern(Greedy0 \o W("aadhaar") \o Run("any", 0, TRUE) \o Cap(AadhaarDigits)
                 \o Greedy0, "personal", <<"aadhaar", "_", "number">>),
       Pattern(Greedy0 \o W("phone") \o Run("any", 0, TRUE) \o Cap(Digits(10))
                 \o Greedy0, "personal", <<"phone", "_", "number">>) >>

\* _handle_memorize_command, lines 337-342
memorize_patterns ==
    << RememberMemorize \o S1 \o ThatThis \o S1 \o Cap(Greedy1),
       Lit(<< <<"store", SP, "this", ":">> >>) \o S0 \o Cap(Greedy1),
       W("note") \o S1 \o W("that") \o S1 \o Cap(Greedy1),
       W("remind") \o S1 \o W("me") \o S1 \o W("that") \o S1 \o Cap(Greedy1) >>

RecallPattern(re, category, extra) == [re |-> re, category |-> category, extra |-> extra]

Contains(phrase) == Greedy0 \o Lit(<<phrase>>) \o Greedy0        \* .*phrase.*

PhoneNumberKey == <<"phone", "_", "number">>
AadhaarKey == <<"aadhaar", "_", "number">>

\* _check_memory_query, lines 168-189
recall_patterns ==
    << RecallPattern(Lit(<< <<"what", SP, "is", SP, "my", SP>> >>) \o Cap(Greedy0),
                     personal_info, <<>>),
       RecallPattern(Lit(<< <<"what", "'", "s", SP, "my", SP>> >>) \o Cap(Greedy0),
                     personal_info, <<>>),
       RecallPattern(Lit(<< <<"show", SP, "me", SP, "my", SP>> >>) \o Cap(Greedy0),
                     personal_info, <<>>),
       RecallPattern(Lit(<< <<"tell", SP, "me", SP, "my", SP>> >>) \o Cap(Greedy0),
                     personal_info, <<>>),
       RecallPattern(Lit(<< <<"what", SP, "are", SP, "my", SP>> >>) \o Cap(Greedy0),
                     personal_info, <<>>),
       RecallPattern(Lit(<< <<"give", SP, "me", SP, "my", SP>> >>) \o Cap(Greedy0),
                     personal_info, <<>>),
       RecallPattern(Contains(<<"my", SP, "phone", SP, "number">>), personal_info,
                     PhoneNumberKey),
       RecallPattern(Contains(<<"my", SP, "aadhaar">>), personal_info, AadhaarKey),
       RecallPattern(Contains(<<"my", SP, "aadhar">>), personal_info, AadhaarKey),
       RecallPattern(Contains(<<"my", SP, "address">>), personal_info, <<"address">>),
       RecallPattern(Contains(<<"my", SP, "email">>), personal_info, <<"email">>),
       RecallPattern(Contains(<<"my", SP, "license">>), personal_info, <<"license">>),
       RecallPattern(Contains(<<"my", SP, "password">>), credentials, <<>>),
       RecallPattern(Contains(<<"my", SP, "username">>), credentials, <<>>),
       RecallPattern(Lit(<< <<"my", SP>> >>) \o Cap(Greedy0), personal_info, <<>>) >>

\* re.search of each pattern on query_lower, tabulated for the questions
TypedMatches ==
    [q \in Queries |-> [p \in DOMAIN patterns |-> re_search(patterns[p].re, Lower(q))]]
GenericMatches ==
    [q \in Queries |->
        [p \in DOMAIN memorize_patterns |-> re_search(memorize_patterns[p], Lower(q))]]
RecallMatches ==
    [q \in Queries |->
        [p \in DOMAIN recall_patterns |->
            re_search(recall_patterns[p].re, Strip(Lower(q)))]]

typed_match(query, p) ==
    IF query \in Queries THEN TypedMatches[query][p]
    ELSE re_search(patterns[p].re, Lower(query))
generic_match(query, p) ==
    IF query \in Queries THEN GenericMatches[query][p]
    ELSE re_search(memorize_patterns[p], Lower(query))
recall_match(query, p) ==
    IF query \in Queries THEN RecallMatches[query][p]
    ELSE re_search(recall_patterns[p].re, Strip(Lower(query)))

-----------------------------------------------------------------------------
(* AIEngine._handle_memorize_command *)

\* a call with fewer positional arguments than the signature requires raises
\* TypeError before the callee runs
CallRaises(given, required) == given < required

\* the outcomes of the saves of one call, in order; the last one goes on for
\* the saves that follow
NextOutcome(script) == Head(script)
RestOutcomes(script) == IF Len(script) > 1 THEN Tail(script) ELSE script

\* hash(content) % 10000 and % 1000, under the string-hash salt of one process
HashOf(content) == IF Head(content) = "meeting" THEN <<"1049">> ELSE <<"128">>

borrowed_from == <<"borrow", "ed", "_", "from">>
lent_to == <<"lent", "_", "to">>
NeedToReturnIt == <<"Need", SP, "to", SP, "return", SP, "it">>

\* MemoryManager.memorize_borrowed_item(user_id, item, person, action, notes)
memorize_borrowed_item(fs, user_id, item, person, action, notes, outcome) ==
    LET key == item \o <<"_">> \o person
        described ==
            CASE action = borrowed_from ->
                    <<"Borrowed", SP>> \o item \o <<SP, "from", SP>> \o person
                        \o <<".", SP>> \o NeedToReturnIt \o <<".">>
              [] action = lent_to ->
                    <<"Lent", SP>> \o item \o <<SP, "to", SP>> \o person
                        \o <<".", SP, "Need", SP, "to", SP, "get", SP, "it", SP, "back", ".">>
              [] OTHER -> item \o <<SP, "-", SP>> \o person \o <<":", SP>> \o action
        value ==
            CASE action = borrowed_from -> <<"Borrowed", SP, "from", SP>> \o person
              [] action = lent_to -> <<"Lent", SP, "to", SP>> \o person
              [] OTHER -> action
        description ==
            IF notes # EmptyText
            THEN described \o <<SP, "|", SP, "Notes", ":", SP>> \o notes
            ELSE described
    IN memorize_files(fs, user_id, borrowed_items, key, value, description, outcome)

Handled(fs, response) == [files |-> fs, response |-> response, none |-> FALSE]
Unhandled(fs) == [files |-> fs, response |-> NoResponse, none |-> TRUE]

MemorizeError == Response("memorize_error", {}, 0)
MemorizeHelp == Response("memorize_help", {}, 0)

RECURSIVE GenericLoop(_, _, _, _)
RECURSIVE PatternLoop(_, _, _, _)

\* lines 349-351: the key of a note, from its first three words and its hash
NoteKey(content) ==
    <<"note", "_">> \o Lower(Join(FirstN(Split(content), 3), <<"_">>)) \o <<"_">>
        \o HashOf(content)

\* lines 354-359: the reply when memorize succeeded, the next pattern when
\* it did not
GenericSaved(saved, query, p, script) ==
    IF NextOutcome(script) = "saved"
    THEN Handled(saved, Response("note_stored", {memory_system}, 9))
    ELSE GenericLoop(saved, query, p + 1, RestOutcomes(script))

\* lines 347-353: memorize("important_notes", key, content, f"User note: {query}")
GenericStored(fs, query, p, script, content) ==
    GenericSaved(memorize_files(fs, important_notes, NoteKey(content), content,
                                <<"User", SP, "note", ":", SP>> \o query,
                                EmptyText, NextOutcome(script)),
                 query, p, script)

\* lines 345-346: the match m of generic pattern p
GenericMatched(fs, query, p, script, m) ==
    IF ~m.ok THEN GenericLoop(fs, query, p + 1, script)
    ELSE GenericStored(fs, query, p, script, Strip(m.groups[1]))

\* lines 337-359: the generic patterns, from pattern p on
GenericLoop(fs, query, p, script) ==
    IF p > Len(memorize_patterns) THEN Handled(fs, MemorizeHelp)
    ELSE GenericMatched(fs, query, p, script, generic_match(query, p))

\* lines 257-262: the content of a reminder, with its time when the pattern
\* has a second group
ReminderContent(groups) ==
    IF Len(groups) = 2
    THEN Strip(groups[1]) \o <<SP, "at", SP>> \o Strip(groups[2])
    ELSE Strip(groups[1])

\* lines 265-266: memorize("important_notes", key, content, f"Reminder: {query}")
StoreReminder(fs, query, content, outcome) ==
    memorize_files(fs, important_notes, <<"reminder", "_">> \o HashOf(content),
                   content, <<"Reminder", ":", SP>> \o query, EmptyText, outcome)

\* the reply of a branch when its memorize call succeeded (lines 267-272,
\* 279-284); the loop goes on when it did not
PatternSaved(saved, query, p, script, response) ==
    IF NextOutcome(script) = "saved" THEN Handled(saved, response)
    ELSE PatternLoop(saved, query, p + 1, RestOutcomes(script))

\* lines 255-334: the branch of a pattern that matched, by its memory_type; a
\* branch that does not return lets the loop go on
PatternBranch(fs, query, p, script, memory_type, groups) ==
    CASE memory_type = "reminder" ->
            PatternSaved(StoreReminder(fs, query, ReminderContent(groups),
                                       NextOutcome(script)),
                         query, p, script,
                         Response("reminder_set", {memory_system}, 10))
      [] memory_type = "borrowed_from" ->
            PatternSaved(memorize_borrowed_item(fs, Strip(groups[1]),
                            Strip(groups[2]), borrowed_from, NeedToReturnIt,
                            EmptyText, NextOutcome(script)),
                         query, p, script,
                         Response("borrowed_recorded", {memory_system}, 10))
      [] memory_type \in {"contact", "debt"} ->
            \* memorize_contact(name, phone), memorize_debt(person, float(amount))
            IF CallRaises(2, 3) THEN Handled(fs, MemorizeError)
            ELSE PatternLoop(fs, query, p + 1, script)
      [] memory_type = "personal" ->
            \* memorize("personal_info", key, value.strip())
            IF CallRaises(3, 4) THEN Handled(fs, MemorizeError)
            ELSE PatternLoop(fs, query, p + 1, script)
      [] OTHER ->
            \* lent_to: its branch hangs under borrowed_from's and never runs
            PatternLoop(fs, query, p + 1, script)

\* lines 253-254: the match m of typed pattern p
PatternMatched(fs, query, p, script, m) ==
    IF ~m.ok THEN PatternLoop(fs, query, p + 1, script)
    ELSE PatternBranch(fs, query, p, script, patterns[p].memory_type, m.groups)

\* lines 252-334: the typed patterns, from pattern p on
PatternLoop(fs, query, p, script) ==
    IF p > Len(patterns) THEN GenericLoop(fs, query, 1, script)
    ELSE PatternMatched(fs, query, p, script, typed_match(query, p))

handle_memorize_command(fs, query, script) == PatternLoop(fs, query, 1, script)

-----------------------------------------------------------------------------
(* Borrowed and lent items: get_items_to_return and get_items_to_receive *)

\* list_memories_by_category(user_id, category)
list_memories_by_category(fs, user_id, category) ==
    CategoryItems(LoadUserMemories(fs, user_id), category)

get_borrowed_items(fs, user_id) == list_memories_by_category(fs, user_id, borrowed_items)

\* line 79: "borrowed from" or "need to return" in the lower-cased description
ToReturn(item) ==
    \/ IsSubstring(<<"borrowed", SP, "from">>, Lower(item.memory.description))
    \/ IsSubstring(<<"need", SP, "to", SP, "return">>, Lower(item.memory.description))

\* line 91: "lent to" or "need to get back" in the lower-cased description
ToReceive(item) ==
    \/ IsSubstring(<<"lent", SP, "to">>, Lower(item.memory.description))
    \/ IsSubstring(<<"need", SP, "to", SP, "get", SP, "back">>,
                   Lower(item.memory.description))

get_items_to_return(fs, user_id) == SelectSeq(get_borrowed_items(fs, user_id), ToReturn)

get_items_to_receive(fs, user_id) == SelectSeq(get_borrowed_items(fs, user_id), ToReceive)

MemorizeBorrowedItem(user_id, item, person, action, notes, outcome) ==
    /\ files' = memorize_borrowed_item(files, user_id, item, person, action, notes, outcome)
    /\ last' = [NoCall EXCEPT !.op = "memorize_borrowed_item", !.user = user_id,
                              !.category = borrowed_items,
                              !.key = item \o <<"_">> \o person,
                              !.ret = IF outcome = "saved" THEN "true" ELSE "false"]
    /\ UNCHANGED <<index, conversations, recent_actions, clients, threads>>

GetItemsToReturn(user_id) ==
    /\ last' = [NoCall EXCEPT !.op = "get_items_to_return", !.user = user_id,
                              !.results = get_items_to_return(files, user_id)]
    /\ UNCHANGED <<files, index, conversations, recent_actions, clients, threads>>

GetItemsToReceive(user_id) ==
    /\ last' = [NoCall EXCEPT !.op = "get_items_to_receive", !.user = user_id,
                              !.results = get_items_to_receive(files, user_id)]
    /\ UNCHANGED <<files, index, conversations, recent_actions, clients, threads>>

-----------------------------------------------------------------------------
(* AIEngine._handle_recall_command *)

RecallError == Response("recall_error", {}, 0)

ReminderWords ==
    { <<"meeting">>, <<"reminder">>, <<"appointment">>, <<"schedule">>, <<"call">>,
      <<"todo">> }
BorrowWords ==
    { <<"borrow">>, <<"lend">>, <<"return">>, <<"give", SP, "back">>, <<"charger">>,
      <<"item">> }
DebtWords == { <<"owe">>, <<"debt">>, <<"borrow">>, <<"loan">>, <<"money">> }
ContactWords == { <<"phone">>, <<"contact">>, <<"number">>, <<"call">> }
\* a faulty variant of OwnContactPhrases: every question with "my" is taken
\* for a question about the user's own contacts
OwnContactPhrasesAny == { <<"my">> }

OwnContactPhrases ==
    { <<"my", SP, "phone">>, <<"my", SP, "number">>, <<"my", SP, "contact">> }

handle_recall_command(fs, query, category, key, outcome) ==
    LET query_lower == Lower(query) IN
    IF ContainsAny(query_lower, ReminderWords) /\ CallRaises(1, 2)
    THEN Handled(fs, RecallError)      \* list_memories_by_category("important_notes")
    ELSE IF ContainsAny(query_lower, BorrowWords) /\ CallRaises(0, 1)
    THEN Handled(fs, RecallError)      \* get_items_to_return()
    ELSE IF ContainsAny(query_lower, DebtWords) /\ CallRaises(0, 1)
    THEN Handled(fs, RecallError)      \* get_all_debts()
    ELSE IF /\ ContainsAny(query_lower, ContactWords)
            /\ ~ContainsAny(query_lower, OwnContactPhrases)
    THEN Unhandled(fs)
    ELSE IF ContainsAny(query_lower, ContactWords) /\ CallRaises(0, 1)
    THEN Handled(fs, RecallError)      \* get_all_contacts()
    ELSE \* recall(key, category): the key is bound to user_id, the category to key
         LET recalled == recall_files(fs, key, category, EmptyText, outcome) IN
         IF recall_found(fs, key, category, EmptyText)
         THEN (IF CallRaises(1, 2)      \* export_memories_to_vector(self.vector_store)
               THEN Handled(recalled, RecallError)
               ELSE Handled(recalled, Response("recalled", {memory_system}, 10)))
         ELSE (IF CallRaises(1, 2)      \* search_memories(key)
               THEN Handled(recalled, RecallError)
               ELSE Handled(recalled, Response("not_found", {}, 0)))

-----------------------------------------------------------------------------
(* AIEngine._check_memory_query and generate_response *)

\* the first recall pattern that matches, 0 when none does
RecallPatternIndex(query) ==
    IF \E p \in DOMAIN recall_patterns : recall_match(query, p).ok
    THEN CHOOSE p \in DOMAIN recall_patterns :
            /\ recall_match(query, p).ok
            /\ \A r \in 1..(p - 1) : ~recall_match(query, r).ok
    ELSE 0

\* lines 194-201: the key handed to _handle_recall_command
RecallKey(query, p) ==
    LET m == recall_match(query, p) IN
    IF recall_patterns[p].extra # <<>> THEN recall_patterns[p].extra
    ELSE IF Len(m.groups) > 0 THEN ReplaceSpace(m.groups[1])
    ELSE ReplaceSpace(MatchedText(m, Strip(Lower(query))))

\* what the resolver takes a query for
Resolve(query) ==
    IF ContainsAny(Strip(Lower(query)), memorize_keywords) THEN "WRITE"
    ELSE IF RecallPatternIndex(query) # 0 THEN "READ"
    ELSE "PASSTHROUGH"

Intents == [q \in Queries |-> Resolve(q)]

Intent(query) == IF query \in Queries THEN Intents[query] ELSE Resolve(query)

\* lines 191-203: the category and the key of recall pattern p, handed to
\* _handle_recall_command
RecallWith(fs, query, p, outcome) ==
    handle_recall_command(fs, query, recall_patterns[p].category, RecallKey(query, p),
                          outcome)

\* lines 163-205: the memorize keywords first, the recall patterns next
MemoryQuery(fs, query, script, intent) ==
    CASE intent = "WRITE" -> handle_memorize_command(fs, query, script)
      [] intent = "READ" ->
            RecallWith(fs, query, RecallPatternIndex(query), NextOutcome(script))
      [] OTHER -> Unhandled(fs)

check_memory_query(fs, query, script) == MemoryQuery(fs, query, script, Intent(query))

\* _enhance_context_with_recent_actions: a question about the last picture
\* gets an entry naming the recently ingested images put first
image_keywords ==
    { <<"last", SP, "given", SP, "pic">>, <<"recent", SP, "image">>,
      <<"previous", SP, "image">>, <<"last", SP, "picture">>, <<"recent", SP, "pic">> }

ImageTypes ==
    { <<".", "jpg">>, <<".", "jpeg">>, <<".", "png">>, <<".", "gif">>, <<".", "bmp">> }

system_recent_actions == <<"system", "_", "recent", "_", "actions">>

RECURSIVE Reverse(_)
Reverse(s) == IF s = <<>> THEN <<>> ELSE Reverse(Tail(s)) \o <<Head(s)>>

recent_images(actions) ==
    SelectSeq(Reverse(actions),
              LAMBDA a : a.action = "ingest" /\ a.file_type \in ImageTypes)

RecentImagesContext(images) ==
    [file_name |-> <<>>, file_path |-> system_recent_actions, user_id |-> NoUser,
     content |-> <<"RECENT IMAGES INFO">> \o images[1].file_name,
     chunk_index |-> 0, chunk_count |-> 0]

enhance_context_with_recent_actions(context, query, actions) ==
    IF ContainsAny(Lower(query), image_keywords) /\ recent_images(actions) # <<>>
    THEN <<RecentImagesContext(recent_images(actions))>> \o context
    ELSE context

\* metadata.get('file_name', metadata.get('file_path', 'Unknown'))
SourceName(item) == IF item.file_name # <<>> THEN item.file_name ELSE item.file_path

Answer(context) ==
    Response("answer", {SourceName(context[i]) : i \in DOMAIN context}, 9)

Apology == Response("apology", {}, 0)

\* _fallback_response: a canned line when the first item of the context fits
\* the question, the notice otherwise
fallback_response(query, context) ==
    LET paths == {context[i].file_path : i \in DOMAIN context}
        canned ==
            /\ context # <<>>
            /\ \/ /\ IsSubstring(<<"key", SP, "objectives">>, Lower(query))
                  /\ IsSubstring(<<"objective">>, Lower(context[1].content))
               \/ /\ IsSubstring(<<"team">>, Lower(query))
                  /\ \E member \in {"John", "Sarah", "Mike"} :
                        IsSubstring(<<member>>, context[1].content)
               \/ /\ IsSubstring(<<"budget">>, Lower(query))
                  /\ IsSubstring(<<"$">>, context[1].content)
    IN Response("fallback", paths, IF canned THEN 7 ELSE 3)

\* _call_openai: the answer, or the provider's exception raised again
call_openai(context, openai_ok) ==
    [raised |-> ~openai_ok, response |-> Answer(context), calls |-> <<"openai">>]

\* _call_groq: the answer; when groq raises, OpenAI if it is configured
call_groq(cl, context, groq_ok, openai_ok) ==
    IF groq_ok
    THEN [raised |-> FALSE, response |-> Answer(context), calls |-> <<"groq">>]
    ELSE IF cl.openai
    THEN [call_openai(context, openai_ok) EXCEPT !.calls = <<"groq", "openai">>]
    ELSE [raised |-> TRUE, response |-> Answer(context), calls |-> <<"groq">>]

\* lines 140-145: Groq first, OpenAI next, the fallback without either
call_provider(cl, query, context, groq_ok, openai_ok) ==
    IF cl.groq THEN call_groq(cl, context, groq_ok, openai_ok)
    ELSE IF cl.openai THEN call_openai(context, openai_ok)
    ELSE [raised |-> FALSE, calls |-> <<>>,
          response |-> fallback_response(query, context)]

\* lines 140-153: the provider's response, the apology when its call raised
ProviderResponse(fs, called, context) ==
    [files |-> fs, response |-> IF called.raised THEN Apology ELSE called.response,
     context |-> context, calls |-> called.calls]

\* lines 84-145: the memory result when there is one, the provider's response
\* for the enhanced context otherwise
ResponseFor(memory_result, cl, query, enhanced_context, groq_ok, openai_ok) ==
    IF ~memory_result.none
    THEN [files |-> memory_result.files, response |-> memory_result.response,
          context |-> <<>>, calls |-> <<>>]
    ELSE ProviderResponse(memory_result.files,
                          call_provider(cl, query, enhanced_context, groq_ok, openai_ok),
                          enhanced_context)

generate_response(fs, actions, cl, query, context, script, groq_ok, openai_ok) ==
    ResponseFor(check_memory_query(fs, query, script), cl, query,
                enhance_context_with_recent_actions(context, query, actions),
                groq_ok, openai_ok)

GenerateResponse(query, context, script, groq_ok, openai_ok) ==
    \E r \in {generate_response(files, recent_actions, clients, query, context,
                               script, groq_ok, openai_ok)} :
       /\ files' = r.files
       /\ last' = [NoCall EXCEPT !.op = "generate_response", !.question = query,
                                 !.ret = "returned", !.response = r.response,
                                 !.context = r.context, !.calls = r.calls]
       /\ UNCHANGED <<index, conversations, recent_actions, clients, threads>>

-----------------------------------------------------------------------------
(* SecondBrain.query *)

\* get_user_history: the user's history, begun empty on first use
get_user_history(histories, user_id) ==
    IF user_id \in DOMAIN histories THEN histories
    ELSE [u \in DOMAIN histories \cup {user_id} |->
            IF u = user_id THEN <<>> ELSE histories[u]]

\* query(question, use_history, user_id): the history is looked up and the
\* question recorded among the recent actions; line 101 then calls
\* export_memories_to_vector(self.vector_store), one argument short of the
\* signature, outside any try: the TypeError leaves query at that line, before
\* the search of line 104 and generate_response of line 108
Query(question, use_history, user_id) ==
    /\ Len(recent_actions) < MaxActions
    /\ conversations' = IF user_id # NoUser /\ use_history
                        THEN get_user_history(conversations, user_id)
                        ELSE conversations
    /\ recent_actions' =
          add_recent_action(recent_actions,
                            RecentAction("query", <<>>, <<>>, question, user_id))
    /\ last' = [NoCall EXCEPT !.op = "query", !.user = user_id,
                              !.question = question,
                              !.calls = <<"export_memories_to_vector">>,
                              !.ret = IF CallRaises(1, 2) THEN "raised" ELSE "returned"]
    /\ UNCHANGED <<files, index, clients, threads>>

-----------------------------------------------------------------------------
(* The system *)

Init ==
    /\ files = <<>>
    /\ index = <<>>
    /\ conversations = <<>>
    /\ recent_actions = <<>>
    /\ clients = [groq |-> TRUE, openai |-> TRUE]
    /\ threads = <<>>
    /\ last = NoCall

MemorizeStep ==
    \E a \in MemorizeCalls, o \in SaveOutcomes : Memorize(a[1], a[2], a[3], a[4], a[5], o)

RecallStep ==
    \E a \in RecallCalls, o \in SaveOutcomes : Recall(a[1], a[2], a[3], o)

ForgetStep ==
    \E a \in ForgetCalls, o \in SaveOutcomes : Forget(a[1], a[2], a[3], o)

ExportStep ==
    \E u \in Users, cleaned \in BOOLEAN, added \in BOOLEAN :
        ExportMemories(u, cleaned, added)

IngestStep ==
    \E f \in Files, o \in IngestOutcomes : IngestData(f, o)

SearchStep ==
    \E u \in Users \cup {NoUser}, n \in SearchSizes, f \in Filters, ok \in BOOLEAN :
        Search(<<"q">>, n, f, u, ok)

\* the memory store and its export to the collection
Next ==
    \/ MemorizeStep
    \/ RecallStep
    \/ ForgetStep
    \/ ExportStep

Spec == Init /\ [][Next]_vars

-----------------------------------------------------------------------------
(* The vector index alone: documents added for a user or ingested, searches *)

\* VectorStore.add_documents([doc], user_id): a document added for a user
AddDocuments(f, u, ok) ==
    /\ Len(index) + Len(f.chunks) <= MaxChunks
    /\ index' = add_documents(index, IngestedFile(f), u, ok)
    /\ last' = [NoCall EXCEPT !.op = "add_documents", !.user = u,
                              !.ret = IF ok THEN "true" ELSE "false"]
    /\ UNCHANGED <<files, conversations, recent_actions, clients, threads>>

AddDocumentsStep ==
    \E f \in Files, u \in Users, ok \in BOOLEAN : AddDocuments(f, u, ok)

NextIndex ==
    \/ AddDocumentsStep
    \/ IngestStep
    \/ SearchStep

SpecIndex == Init /\ [][NextIndex]_vars

-----------------------------------------------------------------------------
(* Documents added for users, memories exported, documents deleted *)

AddUserDocumentStep ==
    \E f \in Documents, u \in Users : AddDocuments(f, u, TRUE)

ExportCleanStep ==
    \E u \in Users : ExportMemories(u, TRUE, TRUE)

DeleteUserDocumentStep ==
    \E f \in Documents, u \in Users, ok \in BOOLEAN :
        DeleteUserDocument(f.file_name, u, ok)

DeleteDocumentStep ==
    \E f \in Documents, ok \in BOOLEAN : DeleteDocument(f.file_name, ok)

DeleteDocumentRouteStep ==
    \E f \in Documents, u \in Users, ok \in BOOLEAN :
        DeleteDocumentRoute(f.file_name, u, ok)

NextDocuments ==
    \/ AddUserDocumentStep
    \/ ExportCleanStep
    \/ DeleteUserDocumentStep
    \/ DeleteDocumentStep
    \/ DeleteDocumentRouteStep

SpecDocuments == Init /\ [][NextDocuments]_vars

-----------------------------------------------------------------------------
(* create_memory_key on its own: keys of a few atoms, standardized *)

KeyAtoms == {"Tulasi", "phone", SP, "'", "-", "_"}

KeyTexts == UNION {[1..n -> KeyAtoms] : n \in 0..MaxKeyLen}

InitKey ==
    /\ files = <<>>
    /\ index = <<>>
    /\ conversations = <<>>
    /\ recent_actions = <<>>
    /\ clients = [groq |-> TRUE, openai |-> TRUE]
    /\ threads = <<>>
    /\ \E text \in KeyTexts : last = [NoCall EXCEPT !.op = "text", !.key = text]

\* create_memory_key(text): last.question keeps the text, last.key its key
CreateMemoryKey ==
    /\ last' = [NoCall EXCEPT !.op = "create_memory_key", !.question = last.key,
                              !.key = create_memory_key(last.key)]
    /\ UNCHANGED <<files, index, conversations, recent_actions, clients, threads>>

NextKey == CreateMemoryKey

SpecKey == InitKey /\ [][NextKey]_vars

-----------------------------------------------------------------------------
(* The intent resolver and the response generator *)

\* the constructor raises when neither provider is configured
InitEngine ==
    /\ files = <<>>
    /\ index = <<>>
    /\ conversations = <<>>
    /\ recent_actions = <<>>
    /\ clients \in {[groq |-> TRUE, openai |-> TRUE], [groq |-> TRUE, openai |-> FALSE],
                    [groq |-> FALSE, openai |-> TRUE]}
    /\ threads = <<>>
    /\ last = NoCall

\* a memorize command returns before the context and the providers are used;
\* the other questions save nothing unless a store is named like their key
GenerateResponseStep ==
    \E q \in Queries, script \in SaveScripts, context \in Contexts,
       groq_ok \in BOOLEAN, openai_ok \in BOOLEAN :
        /\ \E intent \in {Intent(q)} :
              IF intent = "WRITE" THEN context = <<>> /\ groq_ok /\ openai_ok
              ELSE script = <<"saved">>
        /\ GenerateResponse(q, context, script, groq_ok, openai_ok)

NextEngine ==
    \/ GenerateResponseStep
    \/ IngestStep

SpecEngine == InitEngine /\ [][NextEngine]_vars

-----------------------------------------------------------------------------
(* The orchestrator: ingest_data and query *)

QueryStep ==
    \E q \in Questions, use_history \in BOOLEAN, u \in Users \cup {NoUser} :
        Query(q, use_history, u)

NextBrain ==
    \/ IngestStep
    \/ QueryStep

SpecBrain == Init /\ [][NextBrain]_vars

-----------------------------------------------------------------------------
(* Users' stores and the questions that read them *)

TellMyTulasi == Words(<< <<"tell">>, <<"me">>, <<"my">>, <<"tulasi">> >>)

ReadQuestions == { TellMyTulasi, MyNotes, WhatIsMyPhone }

ReadStep ==
    \E q \in ReadQuestions, context \in Contexts :
        GenerateResponse(q, context, <<"saved">>, TRUE, TRUE)

NextRead ==
    \/ MemorizeStep
    \/ ReadStep

SpecRead == Init /\ [][NextRead]_vars

-----------------------------------------------------------------------------
(* Requests of one user served by two threads: memorize, recall and forget, *)
(* each loading the store, changing it and saving it with no lock held      *)

Threads == {1, 2}

MaxRequests == 2    \* requests one thread serves at most

ThreadIdle == [pc |-> "idle", op |-> "none", user |-> NoUser, memories |-> <<>>,
               served |-> 0]

RECURSIVE ItemsSize(_)
ItemsSize(items) ==
    IF items = <<>> THEN 0
    ELSE 1 + Len(Head(items).key) + Len(Head(items).memory.original_key)
           + Len(Head(items).memory.value) + Len(Head(items).memory.description)
           + ItemsSize(Tail(items))

\* the length of the text json.dump writes for a store, counted in atoms: one
\* for each category and each record, and the atoms of the texts they hold
RECURSIVE SerializedSize(_)
SerializedSize(memories) ==
    IF memories = <<>> THEN 0
    ELSE 1 + Len(Head(memories).name) + ItemsSize(Head(memories).items)
           + SerializedSize(Tail(memories))

\* the length of a user's file: nothing when absent or just truncated
FileSize(fs, user_id) ==
    IF UserMemoryFile(user_id) \in DOMAIN fs
    THEN SerializedSize(fs[UserMemoryFile(user_id)].cats) ELSE 0

\* _save_user_memories, line 101: open(memory_file, 'w') empties the file
Truncated(fs, user_id) ==
    [x \in DOMAIN fs \cup {UserMemoryFile(user_id)} |->
        IF x = UserMemoryFile(user_id) THEN [ok |-> FALSE, cats |-> <<>>] ELSE fs[x]]

\* _save_user_memories, line 102: the text is written from the start of the
\* file; what another writer put there beyond the text's length stays behind
\* it, and the file no longer parses
Dumped(fs, user_id, memories) ==
    [x \in DOMAIN fs \cup {UserMemoryFile(user_id)} |->
        IF x # UserMemoryFile(user_id) THEN fs[x]
        ELSE IF SerializedSize(memories) >= FileSize(fs, user_id)
        THEN [ok |-> TRUE, cats |-> memories]
        ELSE [ok |-> FALSE, cats |-> fs[x].cats]]

\* what a request does with the store it loaded: the store it goes on to
\* save, or nothing to save
Saving(memories) == [saves |-> TRUE, memories |-> memories]
NotSaving == [saves |-> FALSE, memories |-> <<>>]

\* memorize, lines 136-149
memorize_loaded(fs, a) == Saving(MemorizedStore(fs, a[1], a[2], a[3], a[4], a[5]))

\* recall, lines 179-208: the store is saved when a record was found
recall_loaded(fs, a) ==
    IF recall_found(fs, a[1], a[2], a[3]) THEN Saving(LoadUserMemories(fs, a[1]))
    ELSE NotSaving

\* forget, lines 361-382: the store is saved when the key was found
forget_loaded(fs, a) ==
    IF ForgetCategory(LoadUserMemories(fs, a[1]), a[2], a[3]) # 0
    THEN Saving(DeleteKey(LoadUserMemories(fs, a[1]),
                          ForgetCategory(LoadUserMemories(fs, a[1]), a[2], a[3]), a[2]))
    ELSE NotSaving

\* a thread takes a request: it loads the store and changes its copy
Begin(t, op, user_id, loaded) ==
    /\ threads[t].pc = "idle"
    /\ threads[t].served < MaxRequests
    /\ threads' = [threads EXCEPT ![t] =
          [pc |-> IF loaded.saves THEN "open" ELSE "idle", op |-> op,
           user |-> user_id, memories |-> loaded.memories,
           served |-> threads[t].served + 1]]
    /\ last' = [NoCall EXCEPT !.op = op, !.user = user_id, !.ret = "loaded"]
    /\ UNCHANGED <<files, index, conversations, recent_actions, clients>>

\* the thread opens the file for writing
OpenFile(t) ==
    /\ threads[t].pc = "open"
    /\ files' = Truncated(files, threads[t].user)
    /\ threads' = [threads EXCEPT ![t].pc = "dump"]
    /\ last' = [NoCall EXCEPT !.op = threads[t].op, !.user = threads[t].user,
                              !.ret = "opened"]
    /\ UNCHANGED <<index, conversations, recent_actions, clients>>

\* the thread writes its copy of the store and returns
DumpFile(t) ==
    /\ threads[t].pc = "dump"
    /\ files' = Dumped(files, threads[t].user, threads[t].memories)
    /\ threads' = [threads EXCEPT ![t].pc = "idle"]
    /\ last' = [NoCall EXCEPT !.op = threads[t].op, !.user = threads[t].user,
                              !.ret = "true", !.memory = <<threads[t].memories>>]
    /\ UNCHANGED <<index, conversations, recent_actions, clients>>

\* the requests of user u1
ThreadMemorizeCalls == {a \in MemorizeCalls : a[1] = U1 /\ a[2] = important_notes}
ThreadRecallCalls == { <<U1, TulasisPhone, EmptyText>> }
ThreadForgetCalls == { <<U1, <<"tulasi">>, EmptyText>> }

InitThreads ==
    /\ files = <<>>
    /\ index = <<>>
    /\ conversations = <<>>
    /\ recent_actions = <<>>
    /\ clients = [groq |-> TRUE, openai |-> TRUE]
    /\ threads = [t \in Threads |-> ThreadIdle]
    /\ last = NoCall

BeginMemorizeStep ==
    \E t \in Threads, a \in ThreadMemorizeCalls :
        Begin(t, "memorize", a[1], memorize_loaded(files, a))

BeginRecallStep ==
    \E t \in Threads, a \in ThreadRecallCalls :
        Begin(t, "recall", a[1], recall_loaded(files, a))

BeginForgetStep ==
    \E t \in Threads, a \in ThreadForgetCalls :
        Begin(t, "forget", a[1], forget_loaded(files, a))

OpenFileStep == \E t \in Threads : OpenFile(t)

DumpFileStep == \E t \in Threads : DumpFile(t)

NextThreads ==
    \/ BeginMemorizeStep
    \/ BeginRecallStep
    \/ BeginForgetStep
    \/ OpenFileStep
    \/ DumpFileStep

SpecThreads == InitThreads /\ [][NextThreads]_vars

-----------------------------------------------------------------------------
(* Exports of the memories served by two threads: export_memories_to_vector *)
(* deletes the user's memory documents, then loads the store and inserts    *)

\* lines 411-422: the documents of the user are deleted; a failure is logged
ExportDelete(t, user_id, cleaned) ==
    /\ threads[t].pc = "idle"
    /\ threads[t].served < MaxRequests
    /\ index' = CleanedCollection(index, user_id, cleaned)
    /\ threads' = [threads EXCEPT ![t] =
          [pc |-> "insert", op |-> "export", user |-> user_id, memories |-> <<>>,
           served |-> threads[t].served + 1]]
    /\ last' = [NoCall EXCEPT !.op = "export", !.user = user_id, !.ret = "deleted",
                              !.calls = <<IF cleaned THEN "cleaned" ELSE "clean_failed">>]
    /\ UNCHANGED <<files, conversations, recent_actions, clients>>

\* lines 424-465: the store is loaded and its text inserted as one document
ExportInsert(t, added) ==
    /\ threads[t].pc = "insert"
    /\ Len(export_collection(files, index, threads[t].user, FALSE, added)) <= MaxChunks
    /\ index' = export_collection(files, index, threads[t].user, FALSE, added)
    /\ threads' = [threads EXCEPT ![t].pc = "idle",
                                  ![t].memories = LoadUserMemories(files, threads[t].user)]
    /\ last' = [NoCall EXCEPT !.op = "export", !.user = threads[t].user,
                              !.ret = IF export_returns(files, threads[t].user, added)
                                      THEN "true" ELSE "false"]
    /\ UNCHANGED <<files, conversations, recent_actions, clients>>

MemorizeNoteStep ==
    \E a \in ThreadMemorizeCalls : Memorize(a[1], a[2], a[3], a[4], a[5], "saved")

ExportDeleteStep ==
    \E t \in Threads, u \in Users, cleaned \in BOOLEAN : ExportDelete(t, u, cleaned)

ExportInsertStep ==
    \E t \in Threads, added \in BOOLEAN : ExportInsert(t, added)

NextExports ==
    \/ MemorizeNoteStep
    \/ ExportDeleteStep
    \/ ExportInsertStep

SpecExports == InitThreads /\ [][NextExports]_vars

-----------------------------------------------------------------------------
(* One key in two categories: memorize and forget of user u1 *)

TwoCategoryMemorizeCalls ==
    { <<U1, contacts, Tulasi, Phone1, EmptyText>>,
      <<U1, important_notes, Tulasi, Phone2, Friend>>,
      <<U1, contacts, Friend, Phone2, EmptyText>> }

TwoCategoryForgetCalls ==
    { <<U1, <<"tulasi">>, EmptyText>>, <<U1, <<"tulasi">>, important_notes>>,
      <<U1, Friend, EmptyText>> }

MemorizeTwoCategoriesStep ==
    \E a \in TwoCategoryMemorizeCalls, o \in SaveOutcomes :
        Memorize(a[1], a[2], a[3], a[4], a[5], o)

ForgetTwoCategoriesStep ==
    \E a \in TwoCategoryForgetCalls, o \in SaveOutcomes : Forget(a[1], a[2], a[3], o)

NextForget ==
    \/ MemorizeTwoCategoriesStep
    \/ ForgetTwoCategoriesStep

SpecForget == Init /\ [][NextForget]_vars

-----------------------------------------------------------------------------
(* Items borrowed and lent, and the two lists read from them *)

NeedToGetItBack == <<"Need", SP, "to", SP, "get", SP, "it", SP, "back">>

\* the arguments of memorize_borrowed_item: <<user_id, item, person, action, notes>>
BorrowedItemCalls ==
    { <<U1, <<"book">>, <<"ram">>, lent_to, EmptyText>>,
      <<U1, <<"charger">>, <<"ram">>, borrowed_from, EmptyText>>,
      <<U1, <<"book">>, <<"ram">>, borrowed_from, NeedToReturnIt>>,
      <<U1, <<"charger">>, <<"ram">>, lent_to, NeedToGetItBack>>,
      <<U2, <<"bag">>, <<"sita">>, borrowed_from, <<"lent", SP, "to", SP, "me">>>> }

MemorizeBorrowedItemStep ==
    \E a \in BorrowedItemCalls, o \in SaveOutcomes :
        MemorizeBorrowedItem(a[1], a[2], a[3], a[4], a[5], o)

GetItemsToReturnStep == \E u \in Users : GetItemsToReturn(u)

GetItemsToReceiveStep == \E u \in Users : GetItemsToReceive(u)

NextBorrowed ==
    \/ MemorizeBorrowedItemStep
    \/ GetItemsToReturnStep
    \/ GetItemsToReceiveStep

SpecBorrowed == Init /\ [][NextBorrowed]_vars

-----------------------------------------------------------------------------
(* Memorize commands whose first save fails and whose second succeeds *)

WriteScripts == SaveScripts \cup { <<"open_fails", "saved">> }

WriteQuestions == {q \in Queries : Intent(q) = "WRITE"}

WriteStep ==
    \E q \in WriteQuestions, script \in WriteScripts :
        GenerateResponse(q, <<>>, script, TRUE, TRUE)

NextWrite == WriteStep

SpecWrite == InitEngine /\ [][NextWrite]_vars

-----------------------------------------------------------------------------
(* Properties of the memory store *)

\* C1: a user's store holds at most one record per (category, standardized
\* key): memorize on an existing pair overwrites that record in place, and
\* every record is stored under the standardized form of its original key.
C1_OneRecordPerKey ==
    \A f \in DOMAIN files :
        LET m == files[f].cats IN
        /\ \A c, d \in DOMAIN m : m[c].name = m[d].name => c = d
        /\ \A c \in DOMAIN m : \A i, j \in DOMAIN m[c].items :
              /\ m[c].items[i].key = m[c].items[j].key => i = j
              /\ m[c].items[i].key = create_memory_key(m[c].items[i].memory.original_key)

\* memorize has just overwritten the record of an existing pair
C1_Witness ==
    /\ last.op = "memorize" /\ last.ret = "true" /\ last.existed
    /\ Len(CategoryItems(LoadUserMemories(files, last.user), last.category)) = 1

\* C2: an operation of the memory store issued for one user (memorize,
\* recall, forget, export) leaves list_memories of every other user unchanged.
C2_OtherStoresUnchanged ==
    [][\A u \in Users :
          last'.user # u => list_memories(files', u) = list_memories(files, u)]_vars

\* user u2 has just memorized while user u1 holds a record
C2_Witness ==
    /\ last.op = "memorize" /\ last.user = U2 /\ last.ret = "true"
    /\ StoredKeys(list_memories(files, U1)) # {}
    /\ StoredKeys(list_memories(files, U2)) # {}

MemoryChunks(collection, user_id) ==
    SelectSeq(collection, LAMBDA c : IsMemoryChunk(c, user_id))

NothingOutsideContacts(memories) ==
    \A c \in DOMAIN memories :
        memories[c].name # contacts => memories[c].items = <<>>

\* C5: after two exports in a row for a user whose store holds a record
\* outside contacts (both reporting success), the collection holds exactly
\* one personal_memories chunk of that user, and its text is the current store's.
C5_OneChunkAfterTwoExports ==
    (/\ last.op = "export" /\ last.ret = "true" /\ last.again
     /\ ~NothingOutsideContacts(LoadUserMemories(files, last.user)))
    => /\ Len(MemoryChunks(index, last.user)) = 1
       /\ MemoryChunks(index, last.user)[1].content =
             memories_text(last.user, LoadUserMemories(files, last.user))

\* C6: an export for a user whose store holds no record outside contacts
\* inserts nothing: afterwards the user has no personal_memories chunk.
C6_NoChunkForEmptyStore ==
    (/\ last.op = "export" /\ last.calls = <<"cleaned">>
     /\ NothingOutsideContacts(LoadUserMemories(files, last.user)))
    => MemoryChunks(index, last.user) = <<>>

-----------------------------------------------------------------------------
(* Properties of the vector index *)

\* C3: search with user_id = A returns no chunk whose metadata user_id is
\* another user's, with or without an extra filter.
C3_SearchOnlyOwnChunks ==
    (last.op = "search" /\ last.user \in Users)
    => \A i \in DOMAIN last.results :
          last.results[i].user_id \notin Users \ {last.user}

\* a search for u1 with an extra filter returned a chunk while the collection
\* holds a chunk of u2 that meets the extra filter
C3_Witness ==
    /\ last.op = "search" /\ last.user = U1 /\ last.filters # NoFilter
    /\ last.results # <<>>
    /\ \E i \in DOMAIN index :
          index[i].user_id = U2 /\ Matches(index[i], last.filters)

-----------------------------------------------------------------------------
(* Properties of the intent resolver *)

C9_Triggers ==
    { <<"memorize">>, <<"remember", SP, "this">>, <<"store", SP, "this">>,
      <<"save", SP, "this">>, <<"remember", SP, "my">>, <<"memorize", SP, "my">> }

StoredKinds == {"reminder_set", "borrowed_recorded", "note_stored"}

\* a record some store holds for the question: its value quotes the question,
\* or is the note of a borrowed item
RecordedFor(question) ==
    \E f \in DOMAIN files : \E c \in DOMAIN files[f].cats :
        \E i \in DOMAIN files[f].cats[c].items :
            LET value == files[f].cats[c].items[i].memory.value IN
            \/ value = NeedToReturnIt
            \/ /\ Len(value) >= Len(question)
               /\ SubSeq(value, Len(value) - Len(question) + 1, Len(value)) = question

\* C9: a question that contains a memorize trigger gets a terminal WRITE
\* outcome from generate_response: a confirmation of a stored record, or the
\* help or error message with confidence 0.0; no recall answer, and no provider
\* is called for it.
C9_TriggerEndsInWrite ==
    (/\ last.op = "generate_response"
     /\ ContainsAny(Strip(Lower(last.question)), C9_Triggers))
    => /\ last.response.kind \in StoredKinds \cup {"memorize_help", "memorize_error"}
       /\ last.response.kind \in StoredKinds => RecordedFor(last.question)
       /\ last.response.kind \notin StoredKinds => last.response.confidence = 0
       /\ last.calls = <<>>

\* a memorize command that also holds the READ trigger "my phone number" has
\* been answered with the error message
C9_Witness ==
    /\ last.op = "generate_response"
    /\ IsSubstring(<<"memorize", SP, "my">>, Lower(last.question))
    /\ IsSubstring(<<"my", SP, "phone", SP, "number">>, Lower(last.question))
    /\ last.response = MemorizeError

\* C10: when generate_response reports a stored record, the stores that
\* exist are stores of users: none is keyed by a category name or by text
\* captured from the question.
C10_OnlyUsersStores ==
    (last.op = "generate_response" /\ last.response.kind \in StoredKinds)
    => DOMAIN files \subseteq {UserMemoryFile(u) : u \in Users}

-----------------------------------------------------------------------------
(* Properties of the orchestrator *)

\* C4: every chunk ingest_data stores carries the id of the ingesting user, so
\* that a search filtered to the asking user can leave out the others' documents.
C4_IngestedChunksCarryUser ==
    (last.op = "ingest" /\ last.ret = "added")
    => \A i \in DOMAIN index : index[i].user_id \in Users

\* C7: query returns to its caller, whatever the store, the index and the
\* providers do; it never raises.
C7_QueryNeverRaises ==
    last.op = "query" => last.ret = "returned"

\* C8: for a question the resolver takes for WRITE or READ, query makes no
\* export, no search and no provider call.
C8_NoRetrievalOnWriteOrRead ==
    (last.op = "query" /\ Intent(last.question) \in {"WRITE", "READ"})
    => \A i \in DOMAIN last.calls :
          last.calls[i] \notin {"export_memories_to_vector", "search", "groq", "openai"}

-----------------------------------------------------------------------------
(* Properties of recall and forget *)

\* the record recall would return for the key fuzzy-matches it
FuzzyMatched(memories, key) ==
    \E c \in DOMAIN memories : \E i \in DOMAIN memories[c].items :
        PartialMatch(create_memory_key(key), memories[c].items[i])

C12_RecallInCategoryFinds ==
    (last.op = "recall" /\ last.category # EmptyText)
    => (last.ret = "memory"
          <=> HasKey(list_memories(files, last.user), last.category,
                     create_memory_key(last.key)))

\* the standardized key k and a stored record: equal, one within the other,
\* or k within the record's original key
C13_Matches(k, item) ==
    \/ item.key = k
    \/ IsSubstring(k, item.key)
    \/ IsSubstring(item.key, k)
    \/ IsSubstring(k, Lower(item.memory.original_key))

\* C13: recall without a category returns a record of the user whenever
\* some record's standardized key equals, contains or is contained in the
\* standardized key asked for (or its original key contains it); the record
\* returned is such a record, and none is returned when there is no such record.
C13_RecallFuzzy ==
    [][(last'.op = "recall" /\ last'.category = EmptyText)
       => LET memories == list_memories(files, last'.user)
              k == create_memory_key(last'.key)
          IN /\ last'.ret = "memory"
                   <=> \E c \in DOMAIN memories : \E i \in DOMAIN memories[c].items :
                          C13_Matches(k, memories[c].items[i])
             /\ last'.ret = "memory"
                   => \E c \in DOMAIN memories : \E i \in DOMAIN memories[c].items :
                         /\ C13_Matches(k, memories[c].items[i])
                         /\ last'.memory = <<memories[c].items[i].memory>>
             /\ last'.ret # "memory" => last'.memory = <<>>]_vars

\* after memorize(u2, contacts, Tulasi, 9876543210), recall(u2, "tulasi's
\* Phone") has returned the record with that value
C13_Witness ==
    /\ last.op = "recall" /\ last.user = U2 /\ last.key = TulasisPhone
    /\ last.category = EmptyText /\ last.ret = "memory"
    /\ last.memory[1].value = Phone1 /\ last.memory[1].category = contacts
    /\ last.memory[1].original_key = Tulasi

-----------------------------------------------------------------------------
(* Properties of the conversation history *)

HistoryKept == 20

\* the turns stored for a user, none when the user has no history yet
History(histories, user_id) ==
    IF user_id \in DOMAIN histories THEN histories[user_id] ELSE <<>>

\* the questions query recorded for a user among the recent actions
QueriesBy(user_id) ==
    Len(SelectSeq(recent_actions,
                  LAMBDA a : a.action = "query" /\ a.user_id = user_id))

\* C14: a user's history holds the two turns of each exchange, the 20 most
\* recent turns when there were more: after n exchanges it has min(2n, 20)
\* turns.
C14_HistoryLength ==
    \A u \in Users :
        Len(History(conversations, u)) = Min(2 * QueriesBy(u), HistoryKept)

\* C15: a query by a user puts the question's turn into that user's history
\* and leaves the history of every other user unchanged.
C15_TurnsGoToAskingUser ==
    [][(last'.op = "query" /\ last'.user \in Users)
       => /\ \E i \in DOMAIN History(conversations', last'.user) :
                History(conversations', last'.user)[i] =
                    [role |-> "user", content |-> last'.question]
          /\ \A u \in Users \ {last'.user} :
                History(conversations', u) = History(conversations, u)]_vars

-----------------------------------------------------------------------------
(* Properties of the response generator *)

\* C16: when the providers that were called have failed, the response is the
\* templated fallback built from the context (confidence 0.7 at most); a
\* provider failure never ends in another response than an answer or the
\* fallback.
C16_FailureDegradesToFallback ==
    (last.op = "generate_response" /\ last.calls # <<>>)
    => /\ last.response.kind \in {"answer", "fallback"}
       /\ last.response.kind = "fallback" => last.response.confidence <= 7

-----------------------------------------------------------------------------
(* Properties of deleting documents *)

\* the collection without the chunks of file filename of user user_id
WithoutFileOfUser(collection, filename, user_id) ==
    SelectSeq(collection,
              LAMBDA c : ~(c.file_name = filename /\ c.user_id = user_id))

\* C17: deleting document F for user A, by the route or by
\* delete_user_document, removes exactly the chunks whose file_name is F and
\* whose user_id is A, and leaves every other chunk unchanged.
C17_DeleteExactlyFileOfUser ==
    [][last'.op \in {"delete_user_document", "delete_route"}
       => index' = WithoutFileOfUser(index, last'.key, last'.user)]_vars

-----------------------------------------------------------------------------
(* Properties of persistence and of the export *)

\* C18: when memorize or forget returns false, the operation was not
\* applied: the user's persisted store equals the store before the call.
C18_FailedSaveNotApplied ==
    [][(last'.op \in {"memorize", "forget"} /\ last'.ret = "false")
       => list_memories(files', last'.user) = list_memories(files, last'.user)]_vars

\* the lines of a text that begin a record: "- " at the start of a line
RecordLines(text) ==
    Cardinality({i \in 1..(Len(text) - 2) :
                    text[i] = NL /\ text[i + 1] = "-" /\ text[i + 2] = SP})

RECURSIVE RecordsOutsideContacts(_)
RecordsOutsideContacts(memories) ==
    IF memories = <<>> THEN 0
    ELSE (IF Head(memories).name = contacts THEN 0 ELSE Len(Head(memories).items))
            + RecordsOutsideContacts(Tail(memories))

\* C19: the memory document exported for a user holds no section and no
\* line of the contacts category, and one line for each record of every
\* other category.
C19_ExportLeavesOutContacts ==
    (last.op = "export" /\ last.ret = "true")
    => LET memories == list_memories(files, last.user)
           chunks == MemoryChunks(index, last.user)
       IN /\ chunks # <<>>
          /\ ~IsSubstring(<<"===", SP, "CONTACTS", SP, "===">>,
                          chunks[Len(chunks)].content)
          /\ RecordLines(chunks[Len(chunks)].content) = RecordsOutsideContacts(memories)
          /\ \A c \in DOMAIN memories : \A i \in DOMAIN memories[c].items :
                memories[c].name # contacts
                    => IsSubstring(ExportLine(memories[c].items[i]),
                                   chunks[Len(chunks)].content)

\* a store with a contact and a note has just been exported
C19_Witness ==
    /\ last.op = "export" /\ last.ret = "true"
    /\ CategoryItems(list_memories(files, last.user), contacts) # <<>>
    /\ CategoryItems(list_memories(files, last.user), important_notes) # <<>>
    /\ RecordLines(MemoryChunks(index, last.user)[1].content) = 1

-----------------------------------------------------------------------------
(* Properties of create_memory_key *)

\* C20: create_memory_key is idempotent: the standardized key of a
\* standardized key is that key.
C20_KeyIdempotent ==
    last.op = "create_memory_key" => create_memory_key(last.key) = last.key

\* a text with a capital, punctuation and whitespace has been standardized
\* to a key that begins or ends with an underscore
C20_Witness ==
    /\ last.op = "create_memory_key"
    /\ \E i \in DOMAIN last.question : IsPunct(last.question[i])
    /\ \E i \in DOMAIN last.question : IsSpace(last.question[i])
    /\ \E i \in DOMAIN last.question : LowerAtom(last.question[i]) # last.question[i]
    /\ last.key # <<>> /\ (Head(last.key) = "_" \/ last.key[Len(last.key)] = "_")
    /\ \A i \in DOMAIN last.question : last.question[i] # "_"

-----------------------------------------------------------------------------
(* Properties of the context handed to the providers *)

\* the entry of a context that names file_name as the most recent image
NamesRecentImage(context, file_name) ==
    \E i \in DOMAIN context :
        /\ context[i].file_path = system_recent_actions
        /\ IsSubstring(file_name, context[i].content)

\* C21: for the question "What is in my recent screenshot?" asked when the
\* most recent image ingested is shot1.png, generate_response assembles a
\* context, and that context holds the system note naming shot1.png, whatever
\* the search returned.
C21_RecentScreenshotNoted ==
    (/\ last.op = "generate_response" /\ last.question = RecentScreenshot
     /\ recent_images(recent_actions) # <<>>
     /\ recent_images(recent_actions)[1].file_name = Shot1.file_name)
    => NamesRecentImage(last.context, Shot1.file_name)

-----------------------------------------------------------------------------
(* Properties of the READ path *)

SpecialWords == ReminderWords \cup BorrowWords \cup DebtWords \cup ContactWords

\* the key the resolver takes from a READ question fuzzy-matches a record of
\* the user's store
ReadFinds(question, user_id) ==
    /\ Intent(question) = "READ"
    /\ ~ContainsAny(Lower(question), SpecialWords)
    /\ recall_found(files, user_id, RecallKey(question, RecallPatternIndex(question)),
                    EmptyText)

\* C22: when the recall of a READ question finds a record of a user, that
\* user's memories are exported before the answer is returned: after the
\* response the collection holds the user's memory chunk, whose text is the
\* user's current store.
C22_RecallRefreshesIndex ==
    (last.op = "generate_response" /\ \E u \in Users : ReadFinds(last.question, u))
    => \E u \in Users :
          /\ ReadFinds(last.question, u)
          /\ MemoryChunks(index, u) # <<>>
          /\ MemoryChunks(index, u)[Len(MemoryChunks(index, u))].content =
                memories_text(u, LoadUserMemories(files, u))

-----------------------------------------------------------------------------
(* Properties of concurrent requests *)

Quiescent == \A t \in DOMAIN threads : threads[t].pc = "idle"

\* C23: whatever way the memorize, forget and recall requests of one user
\* interleave, once no request is in flight the user's file holds a complete
\* store, the one some single request wrote: saves of one user never mix.
C23_StoreNeverCorrupted ==
    (Quiescent /\ last.ret = "true")
    => /\ UserMemoryFile(last.user) \in DOMAIN files
       /\ files[UserMemoryFile(last.user)].ok
       /\ \E t \in DOMAIN threads :
             files[UserMemoryFile(last.user)].cats = threads[t].memories

\* C24: in every reachable state, with two exports of one user running at
\* once and after an export whose delete step failed, the collection holds
\* at most one personal_memories chunk per user; once no export is in flight
\* that chunk is the one the last export inserted.
C24_OneMemoryChunkPerUser ==
    \A u \in Users :
        /\ Len(MemoryChunks(index, u)) <= 1
        /\ (Quiescent /\ last.op = "export" /\ last.user = u /\ last.ret = "true")
              => /\ MemoryChunks(index, u) # <<>>
                 /\ MemoryChunks(index, u)[1].content =
                       memories_text(u, LoadUserMemories(files, u))

-----------------------------------------------------------------------------
(* Properties of forget *)

CategoryNames(memories) == {memories[c].name : c \in DOMAIN memories}

\* the record a store holds under (category, key)
RecordOf(memories, category, key) ==
    LET items == CategoryItems(memories, category) IN items[KeyIndex(items, key)].memory

\* the name of the first category of the store that holds the key
FirstHolding(memories, key) ==
    LET holding == {c \in DOMAIN memories :
                        \E i \in DOMAIN memories[c].items : memories[c].items[i].key = key}
    IN memories[CHOOSE c \in holding : \A d \in holding : c <= d].name

-----------------------------------------------------------------------------
(* Properties of borrowed and lent items *)

\* the item was recorded as borrowed: memorize_borrowed_item gave it the
\* value "Borrowed from <person>"
RecordedBorrowed(item) == Head(item.memory.value) = "Borrowed"
RecordedLent(item) == Head(item.memory.value) = "Lent"

Listed(items, item) == \E i \in DOMAIN items : items[i] = item

\* C26: an item recorded with borrowed_from is among get_items_to_return and
\* not among get_items_to_receive; an item recorded with lent_to is among
\* get_items_to_receive and not among get_items_to_return, whatever the item,
\* the person and the notes.
C26_DirectionConsistent ==
    LET items == get_borrowed_items(files, last.user) IN
    /\ last.op = "get_items_to_return"
          => \A i \in DOMAIN items :
                /\ RecordedBorrowed(items[i]) => Listed(last.results, items[i])
                /\ RecordedLent(items[i]) => ~Listed(last.results, items[i])
    /\ last.op = "get_items_to_receive"
          => \A i \in DOMAIN items :
                /\ RecordedLent(items[i]) => Listed(last.results, items[i])
                /\ RecordedBorrowed(items[i]) => ~Listed(last.results, items[i])

-----------------------------------------------------------------------------
(* Properties of the memorize templates *)

\* the reply that reports the record of a template of this memory_type
KindOfType(memory_type) ==
    CASE memory_type = "reminder" -> "reminder_set"
      [] memory_type \in {"borrowed_from", "lent_to"} -> "borrowed_recorded"
      [] memory_type = "contact" -> "contact_stored"
      [] memory_type = "debt" -> "debt_recorded"
      [] OTHER -> "personal_memorized"

\* the typed templates that match the question
MatchingTemplates(question) ==
    {p \in DOMAIN patterns : re_search(patterns[p].re, Lower(question)).ok}

\* the reply of the first template of the ordered list that matches: a typed
\* template, or the free-text catch-all when no typed template does
FirstTemplateKind(question) ==
    IF MatchingTemplates(question) = {} THEN "note_stored"
    ELSE KindOfType(patterns[CHOOSE p \in MatchingTemplates(question) :
                                \A r \in MatchingTemplates(question) : p <= r].memory_type)

RECURSIVE RecordCount(_)
RecordCount(memories) ==
    IF memories = <<>> THEN 0
    ELSE Len(Head(memories).items) + RecordCount(Tail(memories))

RECURSIVE RecordsIn(_, _)
RecordsIn(fs, names) ==
    IF names = {} THEN 0
    ELSE LET f == CHOOSE f \in names : TRUE
         IN RecordCount(fs[f].cats) + RecordsIn(fs, names \ {f})

\* C27: a memorize command is handled by the first template of the ordered
\* list that matches it and by no later one, the free-text catch-all
\* included, also when the store operation of the first template fails; one
\* command writes one record at most.
C27_FirstTemplateOnly ==
    [][(/\ last'.op = "generate_response"
        /\ ContainsAny(Strip(Lower(last'.question)), memorize_keywords))
       => /\ last'.response.kind \in StoredKinds
                => last'.response.kind = FirstTemplateKind(last'.question)
          /\ RecordsIn(files', DOMAIN files') <= RecordsIn(files, DOMAIN files) + 1]_vars

\* the first template that matches the question is a lent-item template
FirstTemplateLent(question) ==
    /\ MatchingTemplates(question) # {}
    /\ patterns[CHOOSE p \in MatchingTemplates(question) :
                    \A r \in MatchingTemplates(question) : p <= r].memory_type = "lent_to"

\* some store holds a borrowed_items record written with action lent_to
LentRecorded ==
    \E f \in DOMAIN files :
        \E i \in DOMAIN CategoryItems(files[f].cats, borrowed_items) :
            RecordedLent(CategoryItems(files[f].cats, borrowed_items)[i])

\* C28: a memorize command that matches a lent-item template is handled by
\* the lent branch: what it records is a borrowed_items entry with action
\* lent_to, and it is not recorded as a borrowed_from item or as a free-text
\* note.
C28_LentHandledByLentBranch ==
    (/\ last.op = "generate_response" /\ FirstTemplateLent(last.question)
     /\ last.response.kind \in StoredKinds)
    => /\ last.response.kind = "borrowed_recorded"
       /\ LentRecorded

-----------------------------------------------------------------------------
(* Properties of the turns a query appends *)

\* C29: every query made for a user returns with exactly two turns appended
\* to that user's history, the user's turn holding the question and then the
\* assistant's turn, also for a user without a history and when use_history is
\* false.
C29_TwoTurnsPerQuery ==
    [][(last'.op = "query" /\ last'.user \in Users)
       => LET before == History(conversations, last'.user)
              after == History(conversations', last'.user)
          IN /\ last'.ret = "returned"
             /\ Len(after) = Len(before) + 2
             /\ SubSeq(after, 1, Len(before)) = before
             /\ after[Len(after) - 1] = [role |-> "user", content |-> last'.question]
             /\ after[Len(after)].role = "assistant"]_vars

-----------------------------------------------------------------------------
(* Properties of questions about somebody else's contact *)

C30_ContactMentions == { <<"phone">>, <<"contact">>, <<"number">>, <<"call">> }
C30_OwnPhrases ==
    { <<"my", SP, "phone">>, <<"my", SP, "number">>, <<"my", SP, "contact">> }
C30_EarlierWords ==
    { <<"meeting">>, <<"reminder">>, <<"appointment">>, <<"schedule">>, <<"call">>,
      <<"todo">>, <<"borrow">>, <<"lend">>, <<"return">>, <<"give", SP, "back">>,
      <<"charger">>, <<"item">>, <<"owe">>, <<"debt">>, <<"loan">>, <<"money">> }

\* a READ question about the contact of a third party
ThirdPartyContact(question) ==
    /\ Intent(question) = "READ"
    /\ ContainsAny(Lower(question), C30_ContactMentions)
    /\ ~ContainsAny(Lower(question), C30_OwnPhrases)
    /\ ~ContainsAny(Lower(question), C30_EarlierWords)

\* C30: a READ question that mentions phone, contact, number or call without
\* "my phone", "my number" or "my contact" (and without a reminder, borrowed
\* item or debt keyword) gets no result from the resolver: generate_response
\* goes on to the context and the providers, and no store and no chunk is
\* read, written or exported for it.
C30_ThirdPartyContactYields ==
    [][(last'.op = "generate_response" /\ ThirdPartyContact(last'.question))
       => /\ last'.calls # <<>>
          /\ last'.response.kind \in {"answer", "apology"}
          /\ last'.response.sources \cap {memory_system} = {}
          /\ files' = files
          /\ index' = index]_vars

\* "show me my friend contact" has been answered by a provider from the
\* chunks of the context while stores exist
C30_Witness ==
    /\ last.op = "generate_response" /\ last.question = ShowFriendContact
    /\ ThirdPartyContact(last.question)
    /\ last.response.kind = "answer" /\ last.context # <<>>
    /\ DOMAIN files # {}

====
